---- MODULE Spec2Model ----
(***************************************************************************)
(* Model of go-pia-port-forwarding (cmd/go-pia-port-forwarding/main.go):   *)
(* the main goroutine, the port-forwarding loop goroutine, the goroutine   *)
(* left from tunnel detection, the shared signal channel, the ticker, the  *)
(* unbuffered `refreshed` channel, the output file and the automation      *)
(* script.  Time is a clock in seconds that jumps from one timer deadline  *)
(* to the next; every step of a goroutine may be delayed past any number   *)
(* of deadlines.                                                           *)
(***************************************************************************)
EXTENDS Integers, Sequences, FiniteSets, TLC

(* ---------------------------- bounds ----------------------------------- *)
MaxTicks == 2        \* ticker firings modelled for the whole process (Spec)
LoopTicks == 3       \* ticker firings modelled for the loop alone (SpecLoop)
MaxSignals == 1      \* termination signals the environment sends
MaxDetect == 1       \* failing tunnel detections modelled
MaxCalls == 3
MaxLines == 2

(* ------------------------ program constants ---------------------------- *)
InitTimeout == 30            \* time.After(30 * time.Second) in main
NearExpiry == 86400          \* 24 * time.Hour in runPortForwardingLoop
ScriptTimeout == 30          \* cfg.ScriptTimeout, the default of PIA_SCRIPT_TIMEOUT
TokenValidityDuration == 86400

(* ------------------------ inputs of the model -------------------------- *)
Ports == {12345, 54321}              \* ports the provider may lease
LeaseLives == {3600, 86410}          \* expires_at - now of a fresh lease (1h, 24h and 10s)
RefreshIntervals == {10, 900}        \* cfg.RefreshInterval (10s, the default 15m)
ExamplePorts == <<12345, 12345, 54321>>  \* the port sequence of the documented example
OutputFilePath == "/var/run/pia-port.txt"

NoPort == 0
NoTime == -1
NoFile == <<"absent">>

Digit(d) == CASE d = 0 -> "0" [] d = 1 -> "1" [] d = 2 -> "2" [] d = 3 -> "3"
              [] d = 4 -> "4" [] d = 5 -> "5" [] d = 6 -> "6" [] d = 7 -> "7"
              [] d = 8 -> "8" [] d = 9 -> "9"

RECURSIVE Itoa(_)
\* strconv.Itoa / fmt.Sprintf("%d", port) for a non-negative port
Itoa(n) == IF n < 10 THEN <<Digit(n)>> ELSE Itoa(n \div 10) \o <<Digit(n % 10)>>

SetMin(S) == CHOOSE x \in S : \A y \in S : x <= y

VARIABLES
  conf,         \* package config: the environment and the Config made from it
  ca,           \* cfg.CACertFile and the files that exist when main resolves it
  pf,           \* package portforwarding: the last call, its request and what it returned
  vpn,          \* package vpn: the last call, its environment and what it returned
  auth,         \* auth.Client: the cached token and its expiry, with what its calls did
  cfg,          \* config.Config: script (OnPortChangeScript != ""), sync, interval
  now,          \* the clock, seconds
  proc,         \* "running", "exited" (main returned), "killed" (default
                \* signal action) or one of FatalExits (log.Fatalf)
  mainPc,       \* position of main
  loopPc,       \* position of runPortForwardingLoop
  sigPc,        \* position of the signal goroutine started before tunnel detection
  sigChan,      \* number of signals buffered in sigChan (capacity 1)
  sigNotify,    \* signal.Notify(sigChan, ...) in effect
  sigsSent,     \* signals sent by the environment so far
  ctxDone,      \* the detection context is cancelled
  detects,      \* detect calls made by the running detectVPNWithRetry
  tickC,        \* ticker.C holds a tick (capacity 1)
  nextTick,     \* next firing time of the ticker, NoTime when not running
  ticksFired,   \* ticker firings so far
  horizon,      \* ticker firings modelled in this behaviour
  initDeadline, \* deadline of main's time.After(30s), NoTime before the select
  pfInfo,       \* the current lease: port, expiresAt, payload, signature
  initialPort,  \* loop local: port used for change detection
  portChanged,  \* loop local: pending port-changed flag
  outFile,      \* content of cfg.OutputFile, NoFile when never written
  tick,         \* the running loop iteration: what it has done so far (history)
                \* and the deadline of the context of its synchronous script
  seen,         \* history: what the iterations before the running one did
  scriptLog,    \* the arguments of every script invocation, in order
  initLogged    \* history: main logged "Port forwarding initialized successfully"

vars == <<cfg, ca, conf, horizon, auth, vpn, pf, now, proc, mainPc, loopPc, sigPc, sigChan, sigNotify, sigsSent,
          ctxDone, detects, tickC, nextTick, ticksFired, initDeadline,
          pfInfo, initialPort, portChanged, outFile, tick, seen, scriptLog,
          initLogged>>

mainVars == <<mainPc, ctxDone, detects, initDeadline, initLogged>>
loopVars == <<loopPc, pfInfo, initialPort, portChanged, outFile, tick, seen,
              scriptLog>>
sigVars == <<sigPc, sigChan, sigNotify, sigsSent>>
timeVars == <<now, tickC, nextTick, ticksFired>>

NoLease == [port |-> NoPort, expiresAt |-> NoTime, payload |-> <<>>, signature |-> <<>>]
NoTick == [port |-> NoPort, refresh |-> "none", bind |-> "none",
           write |-> "none", invoked |-> FALSE, script |-> "none", log |-> <<>>,
           deadline |-> NoTime, sent |-> <<>>]
NoSeen == [observed |-> NoPort, written |-> NoPort, example |-> 0, start |-> "none"]

\* the configurations modelled: a script or none, run synchronously or not
Configs == {c \in [script : BOOLEAN, sync : BOOLEAN, interval : RefreshIntervals] :
              ~c.script => ~c.sync}

(* ------------------------------ auth.Client ---------------------------- *)
\* the tokens the provider can issue
Tokens == {"tok1", "tok2"}

\* What httpClient.Do and the reading and parsing of its response can give:
\* the request is not sent, the body cannot be read, the body is not JSON, or
\* a TokenResponse with its token and error fields.  (http.NewRequest with the
\* constant method and URL does not fail.)
NoResponse == [kind |-> "none", token |-> "", error |-> ""]
Exchanges ==
  {[kind |-> k, token |-> "", error |-> ""] : k \in {"unsent", "unreadable", "unparsable"}}
    \cup {[kind |-> "json", token |-> t, error |-> e] :
            t \in Tokens \cup {""}, e \in {"", "invalid credentials"}}

\* auth.NewClient: no token, the zero expiry; no call made yet
NewClient ==
  [token |-> "", expiresAt |-> 0, calls |-> 0, exchanges |-> 0,
   ret |-> "", err |-> "", resp |-> NoResponse]

\* a refreshToken that does not look at the error field of the response
refreshToken_IgnoresError(c, t, r) ==
  IF r.kind = "unsent" THEN [c EXCEPT !.ret = "", !.err = "failed to send request"]
  ELSE IF r.kind = "unreadable"
    THEN [c EXCEPT !.ret = "", !.err = "failed to read response body"]
  ELSE IF r.kind = "unparsable"
    THEN [c EXCEPT !.ret = "", !.err = "failed to parse response"]
  ELSE IF r.token = "" THEN [c EXCEPT !.ret = "", !.err = "received empty token"]
  ELSE [c EXCEPT !.token = r.token, !.expiresAt = t + TokenValidityDuration,
                 !.ret = r.token, !.err = ""]

\* a refreshToken that forgets the token it holds when the exchange fails
refreshToken_FailureClearsCache(c, t, r) ==
  IF r.kind = "json" /\ r.error = "" /\ r.token # ""
    THEN [c EXCEPT !.token = r.token, !.expiresAt = t + TokenValidityDuration,
                   !.ret = r.token, !.err = ""]
    ELSE [c EXCEPT !.token = "", !.expiresAt = 0, !.ret = "",
                   !.err = "failed to obtain token"]

\* refreshToken, lines 58-106, at time t with the exchange r: the client after
\* the call, with the returned token (ret) and error (err, "" for nil)
refreshToken(c, t, r) ==
  IF r.kind = "unsent" THEN [c EXCEPT !.ret = "", !.err = "failed to send request"]
  ELSE IF r.kind = "unreadable"
    THEN [c EXCEPT !.ret = "", !.err = "failed to read response body"]
  ELSE IF r.kind = "unparsable"
    THEN [c EXCEPT !.ret = "", !.err = "failed to parse response"]
  ELSE IF r.error # "" THEN [c EXCEPT !.ret = "", !.err = "API error"]
  ELSE IF r.token = "" THEN [c EXCEPT !.ret = "", !.err = "received empty token"]
  ELSE [c EXCEPT !.token = r.token, !.expiresAt = t + TokenValidityDuration,
                 !.ret = r.token, !.err = ""]

\* a GetToken that still takes the token for valid at the instant of its expiry
GetToken_ValidAtExpiry(c, t, r) ==
  IF c.token # "" /\ t <= c.expiresAt
    THEN [c EXCEPT !.calls = c.calls + 1, !.ret = c.token, !.err = "",
                   !.resp = NoResponse]
    ELSE refreshToken([c EXCEPT !.calls = c.calls + 1,
                                !.exchanges = c.exchanges + 1, !.resp = r], t, r)

\* GetToken, lines 47-55: c.token != "" && time.Now().Before(c.expiresAt)
GetToken(c, t, r) ==
  IF c.token # "" /\ t < c.expiresAt
    THEN [c EXCEPT !.calls = c.calls + 1, !.ret = c.token, !.err = "",
                   !.resp = NoResponse]
    ELSE refreshToken([c EXCEPT !.calls = c.calls + 1,
                                !.exchanges = c.exchanges + 1, !.resp = r], t, r)

(* ---------------------------- package vpn ------------------------------ *)
\* Strings that the code takes apart are sequences of one-character strings.
Space == " "
Dot == "."
RemotePrefix == <<"r", "e", "m", "o", "t", "e", " ">>
TunPrefix == <<"t", "u", "n">>
PrivacyNetwork ==
  <<".", "p", "r", "i", "v", "a", "c", "y", ".", "n", "e", "t", "w", "o", "r", "k">>

\* strings.HasPrefix, strings.Contains
HasPrefix(s, p) == Len(s) >= Len(p) /\ SubSeq(s, 1, Len(p)) = p
Contains(s, sub) ==
  \E i \in 1..(Len(s) - Len(sub) + 1) : SubSeq(s, i, i + Len(sub) - 1) = sub

RECURSIVE SplitOn(_, _)
\* strings.Split(s, c) for a one-character separator
SplitOn(s, c) ==
  LET I == {i \in 1..Len(s) : s[i] = c} IN
    IF I = {} THEN <<s>>
    ELSE <<SubSeq(s, 1, SetMin(I) - 1)>> \o SplitOn(SubSeq(s, SetMin(I) + 1, Len(s)), c)

\* strings.Fields, the space being the only white space of the inputs
NonEmpty(f) == f # <<>>
Fields(s) == SelectSeq(SplitOn(s, Space), NonEmpty)

DigitVal(ch) == CHOOSE d \in 0..9 : Digit(d) = ch
IsDigits(f) == \A i \in 1..Len(f) : \E d \in 0..9 : Digit(d) = f[i]
RECURSIVE Atoi(_)
Atoi(f) == IF f = <<>> THEN 0 ELSE 10 * Atoi(SubSeq(f, 1, Len(f) - 1)) + DigitVal(f[Len(f)])

\* net.ParseIP(s) != nil for the dotted-decimal form: four decimal fields of
\* one to three digits, none above 255, none with a leading zero.  (The inputs
\* hold no colon, so the IPv6 forms do not arise.)
IsOctet(f) ==
  /\ Len(f) \in 1..3
  /\ IsDigits(f)
  /\ Atoi(f) <= 255
  /\ Len(f) > 1 => f[1] # "0"
ParseIP(s) ==
  LET p == SplitOn(s, Dot) IN Len(p) = 4 /\ \A i \in 1..4 : IsOctet(p[i])

\* the index of the first element of seq that satisfies P, 0 when there is none
FirstIndex(seq, P(_)) ==
  LET I == {i \in 1..Len(seq) : P(seq[i])} IN IF I = {} THEN 0 ELSE SetMin(I)

\* vpn.ConnectionInfo; the nil *ConnectionInfo
ConnectionInfo(gatewayIP, hostname) == [GatewayIP |-> gatewayIP, Hostname |-> hostname]
NoConnectionInfo == [GatewayIP |-> <<>>, Hostname |-> <<>>]

\* constructHostname, lines 121-123
constructHostname(ip) == ip \o PrivacyNetwork

\* a hasTunInterface that looks for "tun" anywhere in the name
hasTunInterface_Contains(ifaces) ==
  IF ifaces.err THEN FALSE
  ELSE \E i \in 1..Len(ifaces.names) : Contains(ifaces.names[i], TunPrefix)

\* hasTunInterface, lines 45-58; ifaces is what net.Interfaces() returns
hasTunInterface(ifaces) ==
  IF ifaces.err THEN FALSE
  ELSE \E i \in 1..Len(ifaces.names) : HasPrefix(ifaces.names[i], TunPrefix)

\* getVPNGatewayIP, lines 61-83; routes is the outcome of `ip route`
RouteLineMatches(line) == Contains(line, TunPrefix) /\ Len(Fields(line)) >= 3
getVPNGatewayIP(routes) ==
  IF routes.err THEN [ip |-> <<>>, err |-> "failed to get routing table"]
  ELSE LET i == FirstIndex(routes.lines, RouteLineMatches) IN
         IF i = 0 THEN [ip |-> <<>>, err |-> "VPN gateway IP not found in routing table"]
         ELSE [ip |-> Fields(routes.lines[i])[3], err |-> ""]

\* getVPNHostname, lines 86-118; config is the file at configPath
RemoteLineMatches(line) == HasPrefix(line, RemotePrefix) /\ Len(Fields(line)) >= 2

\* a getVPNHostname that goes by the last remote line of the file
getVPNHostname_LastRemote(config) ==
  IF config.err THEN [hostname |-> <<>>, err |-> "failed to open OpenVPN config"]
  ELSE LET I == {i \in 1..Len(config.lines) : RemoteLineMatches(config.lines[i])} IN
         IF I = {}
           THEN [hostname |-> <<>>, err |-> "VPN server hostname not found in OpenVPN config"]
           ELSE LET address == Fields(config.lines[CHOOSE i \in I : \A j \in I : j <= i])[2] IN
                  [hostname |-> IF ParseIP(address) THEN constructHostname(address)
                                ELSE address,
                   err |-> ""]

getVPNHostname(config) ==
  IF config.err THEN [hostname |-> <<>>, err |-> "failed to open OpenVPN config"]
  ELSE LET i == FirstIndex(config.lines, RemoteLineMatches) IN
         IF i = 0
           THEN [hostname |-> <<>>, err |-> "VPN server hostname not found in OpenVPN config"]
           ELSE LET address == Fields(config.lines[i])[2] IN
                  [hostname |-> IF ParseIP(address) THEN constructHostname(address)
                                ELSE address,
                   err |-> ""]

\* a DetectOpenVPNConnection that fails when the configuration gives no host name
DetectOpenVPNConnection_NeedsHostname(env) ==
  IF ~hasTunInterface(env.ifaces)
    THEN [conn |-> NoConnectionInfo, err |-> "no active OpenVPN connection detected"]
  ELSE LET g == getVPNGatewayIP(env.routes)
           h == getVPNHostname(env.config)
       IN IF g.err # ""
            THEN [conn |-> NoConnectionInfo, err |-> "failed to get VPN gateway IP"]
          ELSE IF h.err # ""
            THEN [conn |-> NoConnectionInfo, err |-> "failed to get VPN hostname"]
          ELSE [conn |-> ConnectionInfo(g.ip, h.hostname), err |-> ""]

\* DetectOpenVPNConnection, lines 19-42, in the environment env: the network
\* interfaces, the routing table and the OpenVPN configuration file
DetectOpenVPNConnection(env) ==
  IF ~hasTunInterface(env.ifaces)
    THEN [conn |-> NoConnectionInfo, err |-> "no active OpenVPN connection detected"]
  ELSE LET g == getVPNGatewayIP(env.routes)
           h == getVPNHostname(env.config)
       IN IF g.err # ""
            THEN [conn |-> NoConnectionInfo, err |-> "failed to get VPN gateway IP"]
            ELSE [conn |-> ConnectionInfo(g.ip, IF h.err # "" THEN constructHostname(g.ip)
                                                ELSE h.hostname),
                  err |-> ""]

\* the inputs of package vpn: interface names, words, addresses
Lo == <<"l", "o">>
Eth0 == <<"e", "t", "h", "0">>
Tun0 == <<"t", "u", "n", "0">>
Tu == <<"t", "u">>
Utun3 == <<"u", "t", "u", "n", "3">>
Default == <<"d", "e", "f", "a", "u", "l", "t">>
Via == <<"v", "i", "a">>
Dev == <<"d", "e", "v">>
Remote == <<"r", "e", "m", "o", "t", "e">>
Client == <<"c", "l", "i", "e", "n", "t">>
Udp == <<"u", "d", "p">>
OpenVPNPort == <<"1", "1", "9", "4">>
GatewayAddr == <<"1", "0", ".", "8", ".", "0", ".", "1">>
LanAddr == <<"1", "9", "2", ".", "1", "6", "8", ".", "1", ".", "1">>
IPAddr == <<"1", "0", ".", "1", ".", "2", ".", "3">>
NotIPAddr == <<"1", "0", ".", "1", ".", "2", ".", "3", "0", "0">>
Subnet == <<"1", "0", ".", "8", ".", "0", ".", "0", "/", "2", "4">>
Src == <<"s", "r", "c">>
TunLocalAddr == <<"1", "0", ".", "8", ".", "0", ".", "2">>
HostAddr == <<"v", "p", "n", ".", "e", "x", "a", "m", "p", "l", "e", ".", "c", "o", "m">>

RECURSIVE Join(_)
\* the line made of the words, one space between two words
Join(words) ==
  IF Len(words) = 0 THEN <<>>
  ELSE IF Len(words) = 1 THEN words[1]
  ELSE words[1] \o <<Space>> \o Join(Tail(words))

\* what net.Interfaces() can return
InterfaceLists ==
  {[err |-> TRUE, names |-> <<>>]} \cup
  {[err |-> FALSE, names |-> n] :
     n \in {<<>>, <<Lo, Eth0>>, <<Lo, Eth0, Tun0>>, <<Tun0>>, <<Lo, Utun3>>, <<Tu, Eth0>>}}

\* what `ip route` can print
RouteViaTun == Join(<<Default, Via, GatewayAddr, Dev, Tun0>>)
RouteViaEth == Join(<<Default, Via, LanAddr, Dev, Eth0>>)
RouteShort == Join(<<Dev, Tun0>>)
RouteDevTun == Join(<<Subnet, Dev, Tun0, Src, TunLocalAddr>>)
RouteTables ==
  {[err |-> TRUE, lines |-> <<>>]} \cup
  {[err |-> FALSE, lines |-> l] :
     l \in {<<>>, <<RouteViaEth>>, <<RouteViaEth, RouteViaTun>>, <<RouteShort, RouteViaTun>>,
            <<RouteShort>>, <<RouteViaEth, RouteDevTun, RouteViaTun>>,
            <<RouteViaTun, RouteDevTun>>}}

\* the lines of an OpenVPN configuration file
ConfigLines ==
  {Join(<<Remote, IPAddr, OpenVPNPort, Udp>>), Join(<<Remote, HostAddr, OpenVPNPort, Udp>>),
   Join(<<Remote, NotIPAddr>>), RemotePrefix, Client, Join(<<Dev, TunPrefix>>)}
SeqsUpTo(S, n) == UNION {[1..k -> S] : k \in 0..n}
ConfigFiles ==
  {[err |-> TRUE, lines |-> <<>>]} \cup
  {[err |-> FALSE, lines |-> l] : l \in SeqsUpTo(ConfigLines, MaxLines)}

\* the environments of a call of DetectOpenVPNConnection
Envs == [ifaces : InterfaceLists, routes : RouteTables, config : ConfigFiles]
NoEnv == [ifaces |-> [err |-> FALSE, names |-> <<>>], routes |-> [err |-> FALSE, lines |-> <<>>],
          config |-> [err |-> FALSE, lines |-> <<>>]]

\* the environments met by the tunnel detection of main: no tunnel yet, the
\* tunnel without its route, the tunnel up
EnvTunnelUp ==
  [ifaces |-> [err |-> FALSE, names |-> <<Lo, Eth0, Tun0>>],
   routes |-> [err |-> FALSE, lines |-> <<RouteViaEth, RouteViaTun>>],
   config |-> [err |-> FALSE, lines |-> <<Client, Join(<<Remote, IPAddr, OpenVPNPort, Udp>>)>>]]
DetectEnvs ==
  {[EnvTunnelUp EXCEPT !.ifaces.names = <<Lo, Eth0>>],
   [EnvTunnelUp EXCEPT !.routes.lines = <<RouteViaEth>>],
   EnvTunnelUp}

\* the value of vpn: the last call of the package, with its input and results
VpnCall(fn, env, conn, hostname, err) ==
  [fn |-> fn, env |-> env, conn |-> conn, hostname |-> hostname, err |-> err]
NoVpnCall == VpnCall("none", NoEnv, NoConnectionInfo, <<>>, "")
CallDetect(env) ==
  LET r == DetectOpenVPNConnection(env) IN
    VpnCall("DetectOpenVPNConnection", env, r.conn, r.conn.Hostname, r.err)
CallGetVPNHostname(config) ==
  LET r == getVPNHostname(config) IN
    VpnCall("getVPNHostname", [NoEnv EXCEPT !.config = config], NoConnectionInfo,
            r.hostname, r.err)

(* ----------------------- package portforwarding ------------------------ *)
\* constants of the package, lines 233-240
SignatureEndpoint == "getSignature"
BindPortEndpoint == "bindPort"
APIPort == "19999"

\* NewClient, lines 279-300: the client and the TLS configuration of its
\* transport; the CA certificate path is stored and not read
portforwarding_NewClient(token, gatewayIP, hostname, caCertPath) ==
  [token |-> token, gatewayIP |-> gatewayIP, hostname |-> hostname,
   caCertPath |-> caCertPath,
   tlsConfig |-> [InsecureSkipVerify |-> TRUE, RootCAs |-> "", ServerName |-> <<>>]]

\* time.Time's UnmarshalJSON: the RFC 3339 strings of the inputs and their
\* instants in seconds; -1 for a string that is not RFC 3339
ParseRFC3339(str) ==
  CASE str = "2030-01-01T00:00:00Z" -> 1893456000
    [] str = "2030-01-01T01:00:00+01:00" -> 1893456000
    [] str = "2026-11-04T00:00:00Z" -> 1793750400
    [] OTHER -> -1

\* base64.StdEncoding: an encoded string is written Base64(bytes); NotBase64
\* is a string that does not decode
Base64(bytes) == [encoding |-> "base64", bytes |-> bytes]
\* the bytes of a JSON object with the members given, and bytes that are not
\* JSON; a JSON number, a JSON string, and a member the object does not have
JSONNumber(n) == [type |-> "number", value |-> n]
JSONString(str) == [type |-> "string", value |-> 0]
JSONAbsent == [type |-> "absent", value |-> 0]
JSONObject(members) == [json |-> TRUE, members |-> members]
NotJSON == [json |-> FALSE, members |-> [port |-> JSONNumber(0), expires_at |-> ""]]
NotBase64 == [encoding |-> "none", bytes |-> NotJSON]

\* the query parameters of a request
Params(token, payload, signature) ==
  [token |-> token, payload |-> payload, signature |-> signature]
NoParams == Params("", NotBase64, "")

\* The request that getSignature (lines 377-403) and BindPort (lines 325-351)
\* hand to httpClient.Do: the URL is built with c.hostname, req.Host is set to
\* c.hostname and req.URL.Host is replaced by gatewayIP:APIPort.  The transport
\* dials req.URL.Host and, its tls.Config naming no server, offers and checks
\* the host of the dialled address as the server name; with InsecureSkipVerify
\* the certificate is not verified at all.
BuildRequest(c, endpoint, params) ==
  [method |-> "GET", scheme |-> "https", endpoint |-> endpoint, params |-> params,
   Host |-> c.hostname,
   dial |-> <<c.gatewayIP, APIPort>>,
   serverName |-> IF c.tlsConfig.ServerName # <<>> THEN c.tlsConfig.ServerName
                  ELSE c.gatewayIP,
   verified |-> ~c.tlsConfig.InsecureSkipVerify,
   rootCAs |-> c.tlsConfig.RootCAs]
NoRequest ==
  [method |-> "", scheme |-> "", endpoint |-> "", params |-> NoParams, Host |-> <<>>,
   dial |-> <<>>, serverName |-> <<>>, verified |-> FALSE, rootCAs |-> ""]

\* decodePayload, lines 428-442: base64.StdEncoding.DecodeString, then
\* json.Unmarshal into PayloadData{Port int, ExpiresAt time.Time}; a member
\* the object does not have leaves the zero value of its field
NoPayloadData == [Port |-> NoPort, ExpiresAt |-> NoTime]
decodePayload(payload) ==
  IF payload.encoding # "base64"
    THEN [data |-> NoPayloadData, err |-> "failed to decode payload from base64"]
  ELSE LET b == payload.bytes IN
    IF \/ ~b.json
       \/ b.members.port.type = "string"
       \/ ParseRFC3339(b.members.expires_at) = -1
      THEN [data |-> NoPayloadData, err |-> "failed to parse payload JSON"]
      ELSE [data |-> [Port |-> b.members.port.value,
                      ExpiresAt |-> ParseRFC3339(b.members.expires_at)],
            err |-> ""]

\* what httpClient.Do and the reading and parsing of the body can give
Transport(kind, body) == [kind |-> kind, body |-> body]
NoBody == [status |-> "", payload |-> NotBase64, signature |-> "", message |-> ""]

\* getSignature, lines 377-425, with the exchange r
getSignature(c, r) ==
  IF r.kind = "unsent" THEN [ps |-> NoBody, err |-> "failed to send request"]
  ELSE IF r.kind = "unreadable" THEN [ps |-> NoBody, err |-> "failed to read response body"]
  ELSE IF r.kind = "unparsable" THEN [ps |-> NoBody, err |-> "failed to parse response"]
  ELSE IF r.body.status # "OK" THEN [ps |-> NoBody, err |-> "failed to get signature: status"]
  ELSE [ps |-> r.body, err |-> ""]

\* PortForwardingInfo; the nil *PortForwardingInfo
PortForwardingInfo(port, expiresAt, payload, signature) ==
  [Port |-> port, ExpiresAt |-> expiresAt, Payload |-> payload, Signature |-> signature]
NoPortForwardingInfo == PortForwardingInfo(NoPort, NoTime, NotBase64, "")

\* a GetPortForwarding that takes a status other than "OK" for a lease
GetPortForwarding_AnyStatus(c, r) ==
  IF r.kind # "json" THEN [info |-> NoPortForwardingInfo, err |-> "failed to get signature"]
  ELSE LET d == decodePayload(r.body.payload) IN
    IF d.err # "" THEN [info |-> NoPortForwardingInfo, err |-> "failed to decode payload"]
    ELSE [info |-> PortForwardingInfo(d.data.Port, d.data.ExpiresAt, r.body.payload,
                                      r.body.signature),
          err |-> ""]

\* GetPortForwarding, lines 303-322, with the exchange r
GetPortForwarding(c, r) ==
  LET s == getSignature(c, r) IN
    IF s.err # "" THEN [info |-> NoPortForwardingInfo, err |-> "failed to get signature"]
    ELSE LET d == decodePayload(s.ps.payload) IN
      IF d.err # "" THEN [info |-> NoPortForwardingInfo, err |-> "failed to decode payload"]
      ELSE [info |-> PortForwardingInfo(d.data.Port, d.data.ExpiresAt, s.ps.payload,
                                        s.ps.signature),
            err |-> ""]

\* a BindPort that does not look at the status of the response
BindPort_IgnoresStatus(c, payload, signature, r) ==
  IF r.kind = "unsent" THEN [err |-> "failed to send request", message |-> ""]
  ELSE IF r.kind = "unreadable" THEN [err |-> "failed to read response body", message |-> ""]
  ELSE IF r.kind = "unparsable" THEN [err |-> "failed to parse response", message |-> ""]
  ELSE [err |-> "", message |-> ""]

\* BindPort, lines 325-374, with the exchange r: the error, and the provider's
\* message that the error carries
BindPort(c, payload, signature, r) ==
  IF r.kind = "unsent" THEN [err |-> "failed to send request", message |-> ""]
  ELSE IF r.kind = "unreadable" THEN [err |-> "failed to read response body", message |-> ""]
  ELSE IF r.kind = "unparsable" THEN [err |-> "failed to parse response", message |-> ""]
  ELSE IF r.body.status # "OK"
    THEN [err |-> "failed to bind port", message |-> r.body.message]
  ELSE [err |-> "", message |-> ""]

\* the inputs of the package: the payloads, bodies and exchanges
PayloadBytes ==
  {JSONObject([port |-> p, expires_at |-> t]) :
     p \in {JSONNumber(n) : n \in Ports} \cup {JSONString("12345"), JSONAbsent},
     t \in {"2030-01-01T00:00:00Z", "2030-01-01T01:00:00+01:00", "tomorrow"}}
    \cup {NotJSON}
Payloads == {Base64(b) : b \in PayloadBytes} \cup {NotBase64}
Statuses == {"OK", "ERROR", ""}
SignatureBodies ==
  {[status |-> st, payload |-> p, signature |-> sg, message |-> ""] :
     st \in Statuses, p \in Payloads, sg \in {"sig1", "sig2"}}
BindBodies ==
  {[status |-> st, payload |-> NotBase64, signature |-> "", message |-> m] :
     st \in Statuses, m \in {"", "port already bound", "OK"}}
FailedTransports == {Transport(k, NoBody) : k \in {"unsent", "unreadable", "unparsable"}}
SignatureExchanges == FailedTransports \cup {Transport("json", b) : b \in SignatureBodies}
BindExchanges == FailedTransports \cup {Transport("json", b) : b \in BindBodies}
\* the clients main can create (line 769)
CACertPath == "/etc/pia/ca.rsa.4096.crt"
Clients ==
  {portforwarding_NewClient(t, GatewayAddr, h, CACertPath) :
     t \in Tokens, h \in {HostAddr, IPAddr \o PrivacyNetwork}}

\* the value of pf: the last call of the package, with the client, the request
\* it made, the exchange, and what it returned
PfCall(fn, c, req, r, info, err, message) ==
  [fn |-> fn, client |-> c, req |-> req, exchange |-> r, info |-> info, err |-> err,
   message |-> message]
NoPfCall ==
  PfCall("none", portforwarding_NewClient("", <<>>, <<>>, ""), NoRequest,
         Transport("none", NoBody), NoPortForwardingInfo, "", "")
CallGetPortForwarding(c, r) ==
  LET g == GetPortForwarding(c, r) IN
    PfCall("GetPortForwarding", c, BuildRequest(c, SignatureEndpoint, Params(c.token, NotBase64, "")),
           r, g.info, g.err, "")
CallBindPort(c, payload, signature, r) ==
  LET b == BindPort(c, payload, signature, r) IN
    PfCall("BindPort", c,
           BuildRequest(c, BindPortEndpoint, Params("", payload, signature)),
           r, NoPortForwardingInfo, b.err, b.message)

(* ------------------------ the CA certificate path ---------------------- *)
\* A path is the sequence of its elements, the first being "/" for an
\* absolute path.
Root == "/"
CertName == "ca.rsa.4096.crt"
Cwd == <<Root, "opt", "go-pia">>                \* the working directory
ExamplesDir == <<Root, "etc", "openvpn", "client">>   \* line 603
IsAbs(path) == path # <<>> /\ path[1] = Root
\* filepath.Clean for the "." elements
RECURSIVE Clean(_)
Clean(path) ==
  IF path = <<>> THEN <<>>
  ELSE IF Head(path) = "." THEN Clean(Tail(path))
  ELSE <<Head(path)>> \o Clean(Tail(path))
filepath_Join(dir, path) == Clean(dir \o path)
\* os.Stat(path) returns no error: a relative path is taken from the working
\* directory
Stat(path, files) == (IF IsAbs(path) THEN path ELSE Cwd \o path) \in files

\* resolveCACertPath, lines 589-609
resolveCACertPath(certPath, files) ==
  IF IsAbs(certPath) THEN [path |-> certPath, err |-> ""]
  ELSE LET localPath == filepath_Join(<<".">>, certPath)
           examplesPath == filepath_Join(ExamplesDir, certPath)
       IN IF Stat(localPath, files) THEN [path |-> localPath, err |-> ""]
          ELSE IF Stat(examplesPath, files) THEN [path |-> examplesPath, err |-> ""]
          ELSE [path |-> <<>>, err |-> "CA certificate file not found"]

\* the configured paths (the default of config.DefaultConfig, a relative path
\* with a directory, an absolute path) and the files that can exist
CACertFiles == {<<CertName>>, <<"certs", CertName>>, <<Root, "etc", "pia", CertName>>}
CertFilesOnDisk ==
  {Cwd \o <<CertName>>, ExamplesDir \o <<CertName>>, <<Root, "etc", "pia", CertName>>}
CAs == [CACertFile : CACertFiles, files : SUBSET CertFilesOnDisk]
\* the default path with the certificate in the working directory, and with
\* no certificate anywhere
DefaultCA == [CACertFile |-> <<CertName>>, files |-> {Cwd \o <<CertName>>}]
MissingCA == [CACertFile |-> <<CertName>>, files |-> {}]
MainCAs == {DefaultCA, MissingCA}

(* ----------------------------- package config ------------------------- *)
\* Durations are in milliseconds.
Millisecond == 1
Second == 1000 * Millisecond
Minute == 60 * Second
Hour == 60 * Minute
\* the units time.ParseDuration knows, of those a millisecond or longer
UnitOf(u) ==
  CASE u = <<"m", "s">> -> Millisecond
    [] u = <<"s">> -> Second
    [] u = <<"m">> -> Minute
    [] u = <<"h">> -> Hour
    [] OTHER -> 0

\* the length of the longest prefix of str whose characters are all (digits =
\* TRUE) or are none (digits = FALSE) decimal digits
RECURSIVE PrefixLen(_, _)
PrefixLen(str, digits) ==
  IF str = <<>> \/ (IsDigits(<<str[1]>>) # digits) THEN 0
  ELSE 1 + PrefixLen(Tail(str), digits)

\* time.ParseDuration for strings without sign and without fraction: "0", or
\* one or more decimal numbers each followed by a unit
RECURSIVE ParseTerms(_, _)
ParseTerms(str, d) ==
  IF str = <<>> THEN [d |-> d, err |-> ""]
  ELSE LET n == PrefixLen(str, TRUE)
           rest == SubSeq(str, n + 1, Len(str))
           u == PrefixLen(rest, FALSE)
       IN IF n = 0 THEN [d |-> 0, err |-> "invalid duration"]
          ELSE IF u = 0 THEN [d |-> 0, err |-> "missing unit in duration"]
          ELSE IF UnitOf(SubSeq(rest, 1, u)) = 0
            THEN [d |-> 0, err |-> "unknown unit in duration"]
          ELSE ParseTerms(SubSeq(rest, u + 1, Len(rest)),
                          d + Atoi(SubSeq(str, 1, n)) * UnitOf(SubSeq(rest, 1, u)))
ParseDuration(str) ==
  IF str = <<"0">> THEN [d |-> 0, err |-> ""]
  ELSE IF str = <<>> THEN [d |-> 0, err |-> "invalid duration"]
  ELSE ParseTerms(str, 0)

\* the environment variable set to str replaces the default when str is not
\* empty and ParseDuration accepts it (lines 38-43, 46-51, 54-59)
DurationFromEnv(str, default) ==
  IF str # <<>> /\ ParseDuration(str).err = "" THEN ParseDuration(str).d ELSE default

\* config.DefaultConfig, lines 36-72, for the environment env: the durations
\* of the Config returned
DefaultConfig(env) ==
  [RefreshInterval |-> DurationFromEnv(env.PIA_REFRESH_INTERVAL, 15 * Minute),
   ScriptTimeout |-> DurationFromEnv(env.PIA_SCRIPT_TIMEOUT, ScriptTimeout * Second),
   VPNRetryInterval |-> DurationFromEnv(env.PIA_VPN_RETRY_INTERVAL, 60 * Second)]

\* the values of the environment variables: unset, numbers without unit,
\* duration strings, and strings that are neither
EnvValues ==
  {<<>>, <<"6", "0">>, <<"0">>, <<"6", "0", "s">>, <<"4", "5", "s">>, <<"1", "m">>,
   <<"1", "m", "3", "0", "s">>, <<"5", "0", "0", "m", "s">>, <<"1", "h">>,
   <<"i", "n", "v", "a", "l", "i", "d">>, <<"6", "0", "x">>, <<"s">>,
   <<"6", "0", "s", "5">>}
Environments ==
  [PIA_REFRESH_INTERVAL : {<<>>, <<"9", "0", "0">>, <<"3", "0", "m">>},
   PIA_SCRIPT_TIMEOUT : EnvValues,
   PIA_VPN_RETRY_INTERVAL : {<<>>, <<"6", "0">>, <<"1", "m">>}]
NoConfig == [RefreshInterval |-> 0, ScriptTimeout |-> 0, VPNRetryInterval |-> 0]
ConfCall(fn, env, c) == [fn |-> fn, env |-> env, cfg |-> c]
NoConfCall ==
  ConfCall("none", [PIA_REFRESH_INTERVAL |-> <<>>, PIA_SCRIPT_TIMEOUT |-> <<>>,
                    PIA_VPN_RETRY_INTERVAL |-> <<>>], NoConfig)

Init ==
  /\ cfg \in Configs
  /\ horizon = MaxTicks
  /\ now = 0
  /\ proc = "running"
  /\ mainPc = "token"
  /\ loopPc = "off"
  /\ sigPc = "off"
  /\ sigChan = 0
  /\ sigNotify = FALSE
  /\ sigsSent = 0
  /\ ctxDone = FALSE
  /\ detects = 0
  /\ tickC = FALSE
  /\ nextTick = NoTime
  /\ ticksFired = 0
  /\ initDeadline = NoTime
  /\ pfInfo = NoLease
  /\ initialPort = NoPort
  /\ portChanged = FALSE
  /\ outFile = NoFile
  /\ tick = NoTick
  /\ seen = NoSeen
  /\ scriptLog = <<>>
  /\ initLogged = FALSE
  /\ auth = NewClient
  /\ vpn = NoVpnCall
  /\ pf = NoPfCall
  /\ ca \in MainCAs
  /\ conf = NoConfCall

Running == proc = "running"

\* what the iterations up to and including the one recorded in t have done
Seen(t) ==
  [observed |-> IF t.bind = "ok" THEN t.port ELSE seen.observed,
   written |-> IF t.write = "ok" THEN t.port ELSE seen.written,
   example |-> IF /\ seen.example >= 0
                  /\ seen.example < Len(ExamplePorts)
                  /\ t.bind = "ok"
                  /\ t.write = "ok"
                  /\ t.port = ExamplePorts[seen.example + 1]
                 THEN seen.example + 1 ELSE -1,
   start |-> IF seen.start # "none" \/ t.bind = "none" THEN seen.start
             ELSE IF t.bind = "ok" THEN "bind_ok" ELSE "bind_failed"]

\* the calls of log.Fatalf in main, lines 726, 753, 764 and 782
FatalExits == {"fatal: token", "fatal: vpn", "fatal: ca cert", "fatal: timeout"}

\* The process ends: log.Fatalf (one of FatalExits), main returns ("exited") or
\* a signal takes its default action ("killed").  Every goroutine and everything they
\* held is gone; the output file and what has been observed of the run remain
\* (with what the running iteration has done so far).
Halt(how) ==
  /\ proc' = how
  /\ mainPc' = "dead"
  /\ loopPc' = "dead"
  /\ sigPc' = "dead"
  /\ sigChan' = 0
  /\ sigNotify' = FALSE
  /\ sigsSent' = 0
  /\ ctxDone' = FALSE
  /\ detects' = 0
  /\ now' = 0
  /\ tickC' = FALSE
  /\ nextTick' = NoTime
  /\ ticksFired' = 0
  /\ initDeadline' = NoTime
  /\ pfInfo' = NoLease
  /\ initialPort' = NoPort
  /\ portChanged' = FALSE
  /\ tick' = NoTick
  /\ seen' = IF tick.bind = "ok" THEN Seen(tick) ELSE seen
  /\ vpn' = NoVpnCall
  /\ pf' = NoPfCall
  /\ UNCHANGED <<cfg, ca, conf, horizon, auth, outFile, scriptLog, initLogged>>

(* ----------------------------- signals --------------------------------- *)
\* os/signal: a signal is sent to sigChan without blocking while Notify is in
\* effect, and takes its default action (the process dies) otherwise.
SigChanAfterDelivery == IF sigChan < 1 THEN sigChan + 1 ELSE sigChan

\* The environment sends SIGINT or SIGTERM.
SendSignal ==
  /\ Running
  /\ sigsSent < MaxSignals
  /\ IF sigNotify
       THEN /\ sigChan' = SigChanAfterDelivery
            /\ sigsSent' = sigsSent + 1
            /\ UNCHANGED <<proc, sigPc, sigNotify, cfg, ca, conf, horizon, auth, vpn, pf, mainVars, loopVars, timeVars>>
       ELSE Halt("killed")

\* a main whose select at line 778 has no case for sigChan
MainReceiveSignal_OnlyAfterInit ==
  /\ Running
  /\ mainPc = "wait_sig"
  /\ sigChan > 0
  /\ Halt("exited")

\* main, line 789 and the third case of the select at line 783: <-sigChan
MainReceiveSignal ==
  /\ Running
  /\ mainPc \in {"select", "wait_sig"}
  /\ sigChan > 0
  /\ Halt("exited")

\* main has not yet executed signal.Notify at line 759
BeforeRenotify == mainPc \in {"detect", "detect_wait", "sigreset", "signotify"}

\* goroutine of main, lines 740-747: <-sigChan, then cancelCtx() and
\* signal.Reset(syscall.SIGINT, syscall.SIGTERM), which do not block, then
\* p.Signal(SIGTERM).  Once main is past line 759 nothing re-registers the
\* handler between the Reset and the Signal, so the signal kills the process;
\* before that the two are separate steps, with main's Notify in between.
SigGoReceive ==
  /\ Running
  /\ sigPc = "recv"
  /\ sigChan > 0
  /\ IF BeforeRenotify
       THEN /\ sigChan' = sigChan - 1
            /\ ctxDone' = TRUE
            /\ sigNotify' = FALSE
            /\ sigPc' = "resend"
            /\ UNCHANGED <<sigsSent, proc, cfg, ca, conf, horizon, auth, vpn, pf, mainPc, detects, initDeadline,
                           initLogged, loopVars, timeVars>>
       ELSE Halt("killed")

\* lines 746-747: p.Signal(syscall.SIGTERM) to the own process
SigGoResend ==
  /\ Running
  /\ sigPc = "resend"
  /\ IF sigNotify
       THEN /\ sigChan' = SigChanAfterDelivery
            /\ sigPc' = "done"
            /\ UNCHANGED <<proc, sigNotify, sigsSent, cfg, ca, conf, horizon, auth, vpn, pf, mainVars, loopVars, timeVars>>
       ELSE Halt("killed")

(* ------------------------------- main ---------------------------------- *)
\* getAuthToken(cfg) at line 724; a failure is log.Fatalf
getAuthToken ==
  /\ Running
  /\ mainPc = "token"
  /\ \/ /\ mainPc' = "sighandler"
        /\ UNCHANGED <<cfg, ca, conf, horizon, auth, vpn, pf, proc, ctxDone, detects, initDeadline, initLogged,
                       sigVars, loopVars, timeVars>>
     \/ Halt("fatal: token")

\* setupSignalHandler() and the start of the signal goroutine, lines 730-748
setupSignalHandler ==
  /\ Running
  /\ mainPc = "sighandler"
  /\ sigNotify' = TRUE
  /\ sigPc' = "recv"
  /\ mainPc' = "detect"
  /\ UNCHANGED <<cfg, ca, conf, horizon, auth, vpn, pf, proc, sigChan, sigsSent, ctxDone, detects,
                 initDeadline, initLogged, loopVars, timeVars>>

\* detectVPNWithRetry, lines 514-522: one call of vpn.DetectOpenVPNConnection;
\* the function returns its connection info when the call succeeds
detectVPNWithRetry_Detect ==
  /\ Running
  /\ mainPc = "detect"
  /\ \E env \in DetectEnvs :
       /\ vpn' = CallDetect(env)
       /\ IF vpn'.err = ""
            THEN mainPc' = "sigreset"
            ELSE /\ detects < MaxDetect
                 /\ mainPc' = "detect_wait"
  /\ detects' = detects + 1
  /\ UNCHANGED <<cfg, ca, conf, horizon, auth, pf, proc, ctxDone, initDeadline, initLogged, sigVars, loopVars, timeVars>>

\* a detectVPNWithRetry that gives up after MaxDetect failed calls
detectVPNWithRetry_Wait_GivesUp ==
  /\ Running
  /\ mainPc = "detect_wait"
  /\ IF ctxDone \/ detects >= MaxDetect
       THEN Halt("fatal: vpn")
       ELSE /\ mainPc' = "detect"
            /\ UNCHANGED <<cfg, ca, conf, horizon, auth, vpn, pf, proc, ctxDone, detects, initDeadline,
                           initLogged, sigVars, loopVars, timeVars>>

\* detectVPNWithRetry, lines 525-530: the select on time.After(cfg.VPNRetryInterval)
\* and ctx.Done().  The timer is created by the select and has not fired when
\* the select begins, so the timer case is taken only when it fires before the
\* context is cancelled (the length of the interval is not modelled, the timer
\* fires at some point); with the context cancelled the function returns the
\* error, which is log.Fatalf in main (line 753).
detectVPNWithRetry_Wait ==
  /\ Running
  /\ mainPc = "detect_wait"
  /\ IF ctxDone
       THEN Halt("fatal: vpn")
       ELSE /\ mainPc' = "detect"
            /\ UNCHANGED <<cfg, ca, conf, horizon, auth, vpn, pf, proc, ctxDone, detects, initDeadline,
                           initLogged, sigVars, loopVars, timeVars>>

\* detectVPNWithRetry has returned the connection info; signal.Reset at line 758
MainSignalReset ==
  /\ Running
  /\ mainPc = "sigreset"
  /\ sigNotify' = FALSE
  /\ mainPc' = "signotify"
  /\ detects' = 0
  /\ UNCHANGED <<cfg, ca, conf, horizon, auth, vpn, pf, proc, sigPc, sigChan, sigsSent, ctxDone,
                 initDeadline, initLogged, loopVars, timeVars>>

\* signal.Notify at line 759
MainSignalNotify ==
  /\ Running
  /\ mainPc = "signotify"
  /\ sigNotify' = TRUE
  /\ mainPc' = "cacert"
  /\ UNCHANGED <<cfg, ca, conf, horizon, auth, vpn, pf, proc, sigPc, sigChan, sigsSent, ctxDone, detects,
                 initDeadline, initLogged, loopVars, timeVars>>

\* main's resolveCACertPath(cfg.CACertFile), lines 762-765; a failure is
\* log.Fatalf
MainResolveCACert ==
  /\ Running
  /\ mainPc = "cacert"
  /\ IF resolveCACertPath(ca.CACertFile, ca.files).err = ""
       THEN /\ mainPc' = "spawn"
            /\ UNCHANGED <<cfg, ca, conf, horizon, auth, vpn, pf, proc, ctxDone, detects, initDeadline,
                           initLogged, sigVars, loopVars, timeVars>>
       ELSE Halt("fatal: ca cert")

\* go runPortForwardingLoop(pfClient, cfg, sigChan, refreshed), line 775
MainSpawnLoop ==
  /\ Running
  /\ mainPc = "spawn"
  /\ mainPc' = "enter_select"
  /\ loopPc' = "start"
  /\ UNCHANGED <<cfg, ca, conf, horizon, auth, vpn, pf, proc, ctxDone, detects, initDeadline, initLogged,
                 sigVars, pfInfo, initialPort, portChanged, outFile,
                 tick, seen, scriptLog, timeVars>>

\* main reaches the select at line 778 and creates time.After(30 * time.Second)
MainEnterSelect ==
  /\ Running
  /\ mainPc = "enter_select"
  /\ mainPc' = "select"
  /\ initDeadline' = now + InitTimeout
  /\ UNCHANGED <<cfg, ca, conf, horizon, auth, vpn, pf, proc, ctxDone, detects, initLogged,
                 sigVars, loopVars, timeVars>>

\* the time.After case of the select: log.Fatalf
MainInitTimeout ==
  /\ Running
  /\ mainPc = "select"
  /\ now >= initDeadline
  /\ Halt("fatal: timeout")

(* ------------------------------- time ---------------------------------- *)
TickerRunning == nextTick # NoTime /\ ticksFired < horizon

\* the timers that have not fired yet
Deadlines ==
  (IF TickerRunning THEN {nextTick} ELSE {})
  \cup {d \in {initDeadline} : d # NoTime /\ d > now}
  \cup {d \in {tick.deadline} : d # NoTime /\ d > now}

\* main takes no time from the go statement at line 775 to its select, and
\* once the timer of the select has fired main does not stay in the select
MainIsPrompt == mainPc # "enter_select" /\ ~(mainPc = "select" /\ now >= initDeadline)

\* once the context of the synchronous script has expired, the script is
\* killed and cmd.CombinedOutput() returns
ScriptWaitIsBounded == ~(loopPc = "script_wait" /\ now >= tick.deadline)

\* The clock reaches the next deadline; the ticker sends on ticker.C without
\* blocking (a tick is dropped while the previous one is still unread).
Advance ==
  /\ Running
  /\ MainIsPrompt
  /\ ScriptWaitIsBounded
  /\ Deadlines # {}
  /\ now' = SetMin(Deadlines)
  /\ IF TickerRunning /\ nextTick = now'
       THEN /\ tickC' = TRUE
            /\ nextTick' = nextTick + cfg.interval
            /\ ticksFired' = ticksFired + 1
       ELSE UNCHANGED <<tickC, nextTick, ticksFired>>
  /\ UNCHANGED <<cfg, ca, conf, horizon, auth, vpn, pf, proc, mainVars, sigVars, loopVars>>

(* ------------------------ runPortForwardingLoop ------------------------ *)
\* The provider's payload is the encoding of {port, expires_at} and the
\* signature is the provider's signature of that payload.
Payload(port, expiresAt) == <<"payload", port, expiresAt>>
Signature(payload) == <<"signature", payload>>

\* the leases pfClient.GetPortForwarding() can return now
NewLeases ==
  {[port |-> p, expiresAt |-> now + l, payload |-> Payload(p, now + l),
    signature |-> Signature(Payload(p, now + l))] : p \in Ports, l \in LeaseLives}

\* a test that takes a lease with exactly 24 hours left for one near expiry
NearExpiration_Inclusive(lease) == lease.expiresAt - now <= NearExpiry

\* line 636: time.Until(pfInfo.ExpiresAt) < 24*time.Hour
NearExpiration(lease) == lease.expiresAt - now < NearExpiry

\* lines 635-641: where an iteration that holds `lease` goes first
IterationHead(lease) == IF NearExpiration(lease) THEN "refresh" ELSE "bind"

\* ticker := time.NewTicker(cfg.RefreshInterval), line 614
LoopStart ==
  /\ Running
  /\ loopPc = "start"
  /\ nextTick' = now + cfg.interval
  /\ loopPc' = "init_sig"
  /\ UNCHANGED <<cfg, ca, conf, horizon, auth, vpn, pf, proc, mainVars, sigVars, now, tickC, ticksFired, pfInfo,
                 initialPort, portChanged, outFile, tick, seen, scriptLog>>

\* a loop that asks for the initial signature again until it gets one
LoopInitialSignature_Retries ==
  /\ Running
  /\ loopPc = "init_sig"
  /\ \/ /\ loopPc' = "init_sig"
        /\ seen' = [seen EXCEPT !.start = "sig_failed"]
        /\ UNCHANGED <<pfInfo, initialPort, portChanged>>
     \/ \E l \in NewLeases :
          /\ pfInfo' = l
          /\ initialPort' = l.port
          /\ portChanged' = TRUE
          /\ loopPc' = IterationHead(l)
          /\ UNCHANGED seen
  /\ UNCHANGED <<cfg, ca, conf, horizon, auth, vpn, pf, proc, mainVars, sigVars, timeVars, outFile,
                 tick, scriptLog>>

\* lines 621-632: the initial GetPortForwarding; on failure the loop returns
\* (the deferred ticker.Stop() runs), on success the first iteration begins
LoopInitialSignature ==
  /\ Running
  /\ loopPc = "init_sig"
  /\ \/ /\ loopPc' = "failed"
        /\ nextTick' = NoTime
        /\ seen' = [seen EXCEPT !.start = "sig_failed"]
        /\ UNCHANGED <<pfInfo, initialPort, portChanged>>
     \/ \E l \in NewLeases :
          /\ pfInfo' = l
          /\ initialPort' = l.port
          /\ portChanged' = TRUE
          /\ loopPc' = IterationHead(l)
          /\ UNCHANGED <<nextTick, seen>>
  /\ UNCHANGED <<cfg, ca, conf, horizon, auth, vpn, pf, proc, mainVars, sigVars, now, tickC, ticksFired, outFile,
                 tick, scriptLog>>

\* a refreshPortForwarding that reports every refreshed lease as a change
refreshPortForwarding_AlwaysChanged(ok, newPfInfo) ==
  IF ~ok
    THEN [pfInfo |-> pfInfo, initialPort |-> initialPort, portChanged |-> portChanged]
    ELSE [pfInfo |-> newPfInfo, initialPort |-> newPfInfo.port, portChanged |-> TRUE]

\* a refreshPortForwarding that takes the port and the expiry of the new lease
\* and keeps the payload and the signature it had
refreshPortForwarding_KeepsPayload(ok, newPfInfo) ==
  IF ~ok
    THEN [pfInfo |-> pfInfo, initialPort |-> initialPort, portChanged |-> portChanged]
    ELSE [pfInfo |-> [newPfInfo EXCEPT !.payload = pfInfo.payload,
                                       !.signature = pfInfo.signature],
          initialPort |-> newPfInfo.port,
          portChanged |-> (newPfInfo.port # initialPort)]

\* a refreshPortForwarding that, when the request fails, forgets that a port
\* change is still to be reported
refreshPortForwarding_FailureClearsFlag(ok, newPfInfo) ==
  IF ~ok
    THEN [pfInfo |-> pfInfo, initialPort |-> initialPort, portChanged |-> FALSE]
    ELSE [pfInfo |-> newPfInfo, initialPort |-> newPfInfo.port,
          portChanged |-> (newPfInfo.port # initialPort)]

\* refreshPortForwarding, lines 674-686: the values of pfInfo, *initialPort and
\* *portChanged after the call, for the result of GetPortForwarding
refreshPortForwarding(ok, newPfInfo) ==
  IF ~ok
    THEN [pfInfo |-> pfInfo, initialPort |-> initialPort, portChanged |-> portChanged]
    ELSE [pfInfo |-> newPfInfo, initialPort |-> newPfInfo.port,
          portChanged |-> (newPfInfo.port # initialPort)]

\* line 637
LoopRefresh ==
  /\ Running
  /\ loopPc = "refresh"
  /\ \E ok \in BOOLEAN, l \in NewLeases :
       LET r == refreshPortForwarding(ok, l) IN
         /\ pfInfo' = r.pfInfo
         /\ initialPort' = r.initialPort
         /\ portChanged' = r.portChanged
         /\ tick' = [tick EXCEPT !.refresh = IF ok THEN "ok" ELSE "fail",
                                 !.log = Append(tick.log, "refresh")]
  /\ loopPc' = "bind"
  /\ UNCHANGED <<cfg, ca, conf, horizon, auth, vpn, pf, proc, mainVars, sigVars, timeVars, outFile, seen, scriptLog>>

\* a loop that runs the script before handlePortOutput has written the file
LoopBindOK_ScriptFirst ==
  /\ Running
  /\ loopPc = "bind"
  /\ loopPc' = IF cfg.script /\ portChanged THEN "exec" ELSE "write"
  /\ tick' = [tick EXCEPT !.bind = "ok", !.port = pfInfo.port,
                          !.log = Append(tick.log, "bind")]
  /\ UNCHANGED <<cfg, ca, conf, horizon, auth, vpn, pf, proc, mainVars, sigVars, timeVars, pfInfo, initialPort,
                 portChanged, outFile, seen, scriptLog>>

\* line 641, pfClient.BindPort(pfInfo.Payload, pfInfo.Signature) succeeds
LoopBindOK ==
  /\ Running
  /\ loopPc = "bind"
  /\ loopPc' = "write"
  /\ tick' = [tick EXCEPT !.bind = "ok", !.port = pfInfo.port,
                          !.sent = <<pfInfo.payload, pfInfo.signature>>,
                          !.log = Append(tick.log, "bind")]
  /\ UNCHANGED <<cfg, ca, conf, horizon, auth, vpn, pf, proc, mainVars, sigVars, timeVars, pfInfo, initialPort,
                 portChanged, outFile, seen, scriptLog>>

\* a loop that logs the bind failure and goes on to handlePortOutput
LoopBindFail_FallsThrough ==
  /\ Running
  /\ loopPc = "bind"
  /\ loopPc' = "write"
  /\ tick' = [tick EXCEPT !.bind = "fail", !.port = pfInfo.port,
                          !.log = Append(tick.log, "bind")]
  /\ UNCHANGED <<cfg, ca, conf, horizon, auth, vpn, pf, proc, mainVars, sigVars, timeVars, pfInfo, initialPort,
                 portChanged, outFile, seen, scriptLog>>

\* a loop that returns when a bind fails
LoopBindFail_Returns ==
  /\ Running
  /\ loopPc = "bind"
  /\ loopPc' = "failed"
  /\ nextTick' = NoTime
  /\ tick' = [tick EXCEPT !.bind = "fail", !.log = Append(tick.log, "bind")]
  /\ seen' = Seen(tick')
  /\ UNCHANGED <<cfg, ca, conf, horizon, auth, vpn, pf, proc, mainVars, sigVars, now, tickC, ticksFired, pfInfo,
                 initialPort, portChanged, outFile, scriptLog>>

\* lines 641-650, pfClient.BindPort fails: on to the wait for the next tick
LoopBindFail ==
  /\ Running
  /\ loopPc = "bind"
  /\ loopPc' = "wait_fail"
  /\ tick' = [tick EXCEPT !.bind = "fail",
                          !.sent = <<pfInfo.payload, pfInfo.signature>>,
                          !.log = Append(tick.log, "bind")]
  /\ seen' = Seen(tick')
  /\ UNCHANGED <<cfg, ca, conf, horizon, auth, vpn, pf, proc, mainVars, sigVars, timeVars, pfInfo, initialPort,
                 portChanged, outFile, scriptLog>>

(* --------------------------- handlePortOutput -------------------------- *)
\* line 699: cfg.OnPortChangeScript != "" && portChanged
ShouldExecuteScript == cfg.script /\ portChanged

\* a handlePortOutput that treats a failed write as fatal
WritePortToFile_Fail_Fatal ==
  /\ Running
  /\ loopPc = "write"
  /\ Halt("fatal: write")

\* a handlePortOutput that goes on to the script after a failed write
WritePortToFile_Fail_RunsScript ==
  /\ Running
  /\ loopPc = "write"
  /\ loopPc' = IF ShouldExecuteScript THEN "exec" ELSE "notify"
  /\ tick' = [tick EXCEPT !.write = "fail", !.log = Append(tick.log, "write")]
  /\ UNCHANGED <<cfg, ca, conf, horizon, auth, vpn, pf, proc, mainVars, sigVars, timeVars, pfInfo, initialPort,
                 portChanged, outFile, seen, scriptLog>>

\* WritePortToFile: os.MkdirAll fails, or os.WriteFile cannot open the file;
\* handlePortOutput logs and returns (lines 691-694)
WritePortToFile_Fail ==
  /\ Running
  /\ loopPc = "write"
  /\ loopPc' = "notify"
  /\ tick' = [tick EXCEPT !.write = "fail", !.log = Append(tick.log, "write")]
  /\ UNCHANGED <<cfg, ca, conf, horizon, auth, vpn, pf, proc, mainVars, sigVars, timeVars, pfInfo, initialPort,
                 portChanged, outFile, seen, scriptLog>>

\* os.WriteFile opens the file with O_TRUNC: the file is empty until the write
WritePortToFile_Truncate ==
  /\ Running
  /\ loopPc = "write"
  /\ loopPc' = "write_data"
  /\ outFile' = <<>>
  /\ UNCHANGED <<cfg, ca, conf, horizon, auth, vpn, pf, proc, mainVars, sigVars, timeVars, pfInfo, initialPort,
                 portChanged, tick, seen, scriptLog>>

\* a WritePortToFile that ends the port with a newline
WritePortToFile_Data_Newline ==
  /\ Running
  /\ loopPc = "write_data"
  /\ outFile' = Itoa(pfInfo.port) \o <<"\n">>
  /\ loopPc' = IF ShouldExecuteScript THEN "exec" ELSE "notify"
  /\ tick' = [tick EXCEPT !.write = "ok", !.log = Append(tick.log, "write")]
  /\ UNCHANGED <<cfg, ca, conf, horizon, auth, vpn, pf, proc, mainVars, sigVars, timeVars, pfInfo, initialPort,
                 portChanged, seen, scriptLog>>

\* os.WriteFile writes fmt.Sprintf("%d", port); handlePortOutput goes on to
\* the script when line 699 says so
WritePortToFile_Data ==
  /\ Running
  /\ loopPc = "write_data"
  /\ outFile' = Itoa(pfInfo.port)
  /\ loopPc' = IF ShouldExecuteScript THEN "exec" ELSE "notify"
  /\ tick' = [tick EXCEPT !.write = "ok", !.log = Append(tick.log, "write")]
  /\ UNCHANGED <<cfg, ca, conf, horizon, auth, vpn, pf, proc, mainVars, sigVars, timeVars, pfInfo, initialPort,
                 portChanged, seen, scriptLog>>

\* the write after the truncation fails: handlePortOutput logs and returns
WritePortToFile_DataFail ==
  /\ Running
  /\ loopPc = "write_data"
  /\ loopPc' = "notify"
  /\ tick' = [tick EXCEPT !.write = "fail", !.log = Append(tick.log, "write")]
  /\ UNCHANGED <<cfg, ca, conf, horizon, auth, vpn, pf, proc, mainVars, sigVars, timeVars, pfInfo, initialPort,
                 portChanged, outFile, seen, scriptLog>>

(* ------------------------ executePortChangeScript ---------------------- *)
\* execCommand(ctx, cfg.OnPortChangeScript, strconv.Itoa(port), cfg.OutputFile)
ScriptArgs(port) == <<Itoa(port), OutputFilePath>>

\* an executePortChangeScript that waits for the script in both modes
StartStates_AlwaysWaits == {"start_failed", "running"}

\* The states in which executePortChangeScript leaves the process it starts.
\* Synchronous: cmd.CombinedOutput() either fails to start or runs.
\* Asynchronous: cmd.Start() fails, or the process is started; on return the
\* deferred cancel() ends the command's context, which kills the process unless
\* it has exited already.
StartStates ==
  IF cfg.sync THEN {"start_failed", "running"}
              ELSE {"start_failed", "exited_ok", "exited_fail", "killed"}

\* lines 465-509, up to the point where the function blocks or returns
executePortChangeScript ==
  /\ Running
  /\ loopPc = "exec"
  /\ \E st \in StartStates :
       /\ tick' = [tick EXCEPT !.invoked = TRUE, !.script = st,
                               !.log = Append(tick.log, "script"),
                               !.deadline = IF st = "running" THEN now + ScriptTimeout
                                            ELSE NoTime]
       /\ loopPc' = IF st = "running" THEN "script_wait" ELSE "notify"
  /\ scriptLog' = Append(scriptLog, ScriptArgs(pfInfo.port))
  /\ UNCHANGED <<cfg, ca, conf, horizon, auth, vpn, pf, proc, mainVars, sigVars, timeVars, pfInfo, initialPort,
                 portChanged, outFile, seen>>

\* the ways cmd.CombinedOutput() can return now: the script has exited, or
\* cfg.ScriptTimeout has elapsed and the context has killed it
WaitResults ==
  {"exited_ok", "exited_fail"} \cup (IF now >= tick.deadline THEN {"killed"} ELSE {})

\* an executePortChangeScript that ends the process when the script fails
executePortChangeScript_Wait_Fatal ==
  /\ Running
  /\ loopPc = "script_wait"
  /\ \E st \in WaitResults :
       IF st = "exited_ok"
         THEN /\ tick' = [tick EXCEPT !.script = st, !.deadline = NoTime]
              /\ loopPc' = "notify"
              /\ UNCHANGED <<cfg, ca, conf, horizon, auth, vpn, pf, proc, mainVars, sigVars, timeVars, pfInfo,
                             initialPort, portChanged, outFile, seen, scriptLog>>
         ELSE Halt("fatal: script")

\* lines 476-483: cmd.CombinedOutput() returns; the result is only logged
executePortChangeScript_Wait ==
  /\ Running
  /\ loopPc = "script_wait"
  /\ \E st \in WaitResults : tick' = [tick EXCEPT !.script = st, !.deadline = NoTime]
  /\ loopPc' = "notify"
  /\ UNCHANGED <<cfg, ca, conf, horizon, auth, vpn, pf, proc, mainVars, sigVars, timeVars, pfInfo, initialPort,
                 portChanged, outFile, seen, scriptLog>>

(* -------------------- runPortForwardingLoop, the rest ------------------ *)
\* lines 656-662: portChanged = false, then the non-blocking send on the
\* unbuffered channel `refreshed`, which succeeds only while main is blocked in
\* its select (main then logs the initialization, line 780)
LoopNotify ==
  /\ Running
  /\ loopPc = "notify"
  /\ portChanged' = FALSE
  /\ loopPc' = "wait"
  /\ IF mainPc = "select"
       THEN mainPc' = "wait_sig" /\ initLogged' = TRUE
       ELSE UNCHANGED <<mainPc, initLogged>>
  /\ seen' = Seen(tick)
  /\ tick' = NoTick
  /\ UNCHANGED <<cfg, ca, conf, horizon, auth, vpn, pf, proc, ctxDone, detects, initDeadline, sigVars,
                 timeVars, pfInfo, initialPort, outFile, scriptLog>>

\* the selects at lines 644-649 and 665-669, case <-ticker.C: the next
\* iteration begins
LoopWaitTick ==
  /\ Running
  /\ loopPc \in {"wait", "wait_fail"}
  /\ tickC
  /\ tickC' = FALSE
  /\ loopPc' = IterationHead(pfInfo)
  /\ tick' = NoTick
  /\ UNCHANGED <<cfg, ca, conf, horizon, auth, vpn, pf, proc, mainVars, sigVars, now, nextTick, ticksFired, pfInfo,
                 initialPort, portChanged, outFile, seen, scriptLog>>

\* a loop that removes the output file when it is cancelled
LoopWaitSignal_RemovesFile ==
  /\ Running
  /\ loopPc \in {"wait", "wait_fail"}
  /\ sigChan > 0
  /\ sigChan' = sigChan - 1
  /\ loopPc' = "stopped"
  /\ nextTick' = NoTime
  /\ pfInfo' = NoLease
  /\ initialPort' = NoPort
  /\ portChanged' = FALSE
  /\ tick' = NoTick
  /\ outFile' = NoFile
  /\ UNCHANGED <<cfg, ca, conf, horizon, auth, vpn, pf, proc, mainVars, sigPc, sigNotify, sigsSent, now, tickC,
                 ticksFired, seen, scriptLog>>

\* the selects at lines 644-649 and 665-669, case <-sigChan: return (the
\* deferred ticker.Stop() runs, the locals are gone)
LoopWaitSignal ==
  /\ Running
  /\ loopPc \in {"wait", "wait_fail"}
  /\ sigChan > 0
  /\ sigChan' = sigChan - 1
  /\ loopPc' = "stopped"
  /\ nextTick' = NoTime
  /\ pfInfo' = NoLease
  /\ initialPort' = NoPort
  /\ portChanged' = FALSE
  /\ tick' = NoTick
  /\ UNCHANGED <<cfg, ca, conf, horizon, auth, vpn, pf, proc, mainVars, sigPc, sigNotify, sigsSent, now, tickC,
                 ticksFired, outFile, seen, scriptLog>>

Next ==
  \/ SendSignal
  \/ MainReceiveSignal
  \/ SigGoReceive
  \/ SigGoResend
  \/ getAuthToken
  \/ setupSignalHandler
  \/ detectVPNWithRetry_Detect
  \/ detectVPNWithRetry_Wait
  \/ MainSignalReset
  \/ MainSignalNotify
  \/ MainResolveCACert
  \/ MainSpawnLoop
  \/ MainEnterSelect
  \/ MainInitTimeout
  \/ Advance
  \/ LoopStart
  \/ LoopInitialSignature
  \/ LoopRefresh
  \/ LoopBindOK
  \/ LoopBindFail
  \/ WritePortToFile_Fail
  \/ WritePortToFile_Truncate
  \/ WritePortToFile_Data
  \/ WritePortToFile_DataFail
  \/ executePortChangeScript
  \/ executePortChangeScript_Wait
  \/ LoopNotify
  \/ LoopWaitTick
  \/ LoopWaitSignal

Spec == Init /\ [][Next]_vars

(* ------------------- the loop alone, over more ticks ------------------- *)
\* The state right after `go runPortForwardingLoop(...)` at line 775, in an
\* environment that sends no termination signal.
InitLoop ==
  /\ cfg \in Configs
  /\ horizon = LoopTicks
  /\ now = 0
  /\ proc = "running"
  /\ mainPc = "enter_select"
  /\ loopPc = "start"
  /\ sigPc = "recv"
  /\ sigChan = 0
  /\ sigNotify = TRUE
  /\ sigsSent = 0
  /\ ctxDone = FALSE
  /\ detects = 0
  /\ tickC = FALSE
  /\ nextTick = NoTime
  /\ ticksFired = 0
  /\ initDeadline = NoTime
  /\ pfInfo = NoLease
  /\ initialPort = NoPort
  /\ portChanged = FALSE
  /\ outFile = NoFile
  /\ tick = NoTick
  /\ seen = NoSeen
  /\ scriptLog = <<>>
  /\ initLogged = FALSE
  /\ auth = NewClient
  /\ vpn = NoVpnCall
  /\ pf = NoPfCall
  /\ ca = DefaultCA
  /\ conf = NoConfCall

NextLoop ==
  \/ MainEnterSelect
  \/ MainInitTimeout
  \/ Advance
  \/ LoopStart
  \/ LoopInitialSignature
  \/ LoopRefresh
  \/ LoopBindOK
  \/ LoopBindFail
  \/ WritePortToFile_Fail
  \/ WritePortToFile_Truncate
  \/ WritePortToFile_Data
  \/ WritePortToFile_DataFail
  \/ executePortChangeScript
  \/ executePortChangeScript_Wait
  \/ LoopNotify
  \/ LoopWaitTick

SpecLoop == InitLoop /\ [][NextLoop]_vars

\* the steps of runPortForwardingLoop
LoopStep ==
  \/ LoopStart
  \/ LoopInitialSignature
  \/ LoopRefresh
  \/ LoopBindOK
  \/ LoopBindFail
  \/ WritePortToFile_Fail
  \/ WritePortToFile_Truncate
  \/ WritePortToFile_Data
  \/ WritePortToFile_DataFail
  \/ executePortChangeScript
  \/ executePortChangeScript_Wait
  \/ LoopNotify
  \/ LoopWaitTick

\* The loop goroutine is scheduled, and each of its calls returns: the HTTP
\* client has a timeout (NewClient), the synchronous script has cfg.ScriptTimeout.
SpecLoopFair == SpecLoop /\ WF_vars(LoopStep)

(* ------------------------- auth.Client, its calls ---------------------- *)
\* a caller calls GetToken on the client
AuthGetToken ==
  /\ auth.calls < MaxCalls
  /\ \E r \in Exchanges : auth' = GetToken(auth, now, r)
  /\ UNCHANGED <<cfg, ca, conf, horizon, vpn, pf, now, proc, mainVars, loopVars, sigVars, tickC,
                 nextTick, ticksFired>>

\* time passes between the calls, up to two validity periods
AuthSteps == {TokenValidityDuration \div 2, TokenValidityDuration}
AuthHorizon == 2 * TokenValidityDuration
AuthAdvance ==
  /\ \E d \in AuthSteps : now' = now + d
  /\ now' <= AuthHorizon
  /\ UNCHANGED <<cfg, ca, conf, horizon, auth, vpn, pf, proc, mainVars, loopVars, sigVars, tickC, nextTick,
                 ticksFired>>

(* --------------- the loop over more than a token's validity ------------ *)
\* The state right after `go runPortForwardingLoop(...)` at line 775 when
\* getAuthToken (line 724) obtained the token at time 0 and the refresh
\* interval is half the validity of a token (PIA_REFRESH_INTERVAL=12h), in an
\* environment that sends no termination signal.  The token of the
\* port-forwarding client is the string main got from auth: auth.token, which
\* the provider accepts until auth.expiresAt.
LongInterval == TokenValidityDuration \div 2
InitLongRun ==
  /\ cfg \in {[c EXCEPT !.interval = LongInterval] : c \in Configs}
  /\ ca = DefaultCA
  /\ conf = NoConfCall
  /\ horizon = LoopTicks
  /\ now = 0
  /\ proc = "running"
  /\ mainPc = "enter_select"
  /\ loopPc = "start"
  /\ sigPc = "recv"
  /\ sigChan = 0
  /\ sigNotify = TRUE
  /\ sigsSent = 0
  /\ ctxDone = FALSE
  /\ detects = 0
  /\ tickC = FALSE
  /\ nextTick = NoTime
  /\ ticksFired = 0
  /\ initDeadline = NoTime
  /\ pfInfo = NoLease
  /\ initialPort = NoPort
  /\ portChanged = FALSE
  /\ outFile = NoFile
  /\ tick = NoTick
  /\ seen = NoSeen
  /\ scriptLog = <<>>
  /\ initLogged = FALSE
  /\ auth \in {GetToken(NewClient, 0, [kind |-> "json", token |-> t, error |-> ""]) :
                 t \in Tokens}
  /\ vpn = NoVpnCall
  /\ pf = NoPfCall

SpecLongRun == InitLongRun /\ [][NextLoop]_vars

\* no orchestrator is running: a package is exercised by itself
OrchestratorOff ==
  /\ cfg \in {c \in Configs : ~c.script /\ c.interval = 900}
  /\ ca = DefaultCA
  /\ horizon = 0
  /\ now = 0
  /\ proc = "running"
  /\ mainPc = "token"
  /\ loopPc = "off"
  /\ sigPc = "off"
  /\ sigChan = 0
  /\ sigNotify = FALSE
  /\ sigsSent = 0
  /\ ctxDone = FALSE
  /\ detects = 0
  /\ tickC = FALSE
  /\ nextTick = NoTime
  /\ ticksFired = 0
  /\ initDeadline = NoTime
  /\ pfInfo = NoLease
  /\ initialPort = NoPort
  /\ portChanged = FALSE
  /\ outFile = NoFile
  /\ tick = NoTick
  /\ seen = NoSeen
  /\ scriptLog = <<>>
  /\ initLogged = FALSE

\* a client by itself
InitAuth ==
  /\ OrchestratorOff
  /\ conf = NoConfCall
  /\ auth = NewClient
  /\ vpn = NoVpnCall
  /\ pf = NoPfCall

NextAuth ==
  \/ AuthGetToken
  \/ AuthAdvance

SpecAuth == InitAuth /\ [][NextAuth]_vars

(* --------------------------- package vpn, its calls -------------------- *)
\* DetectOpenVPNConnection is called in the environment of the state
VpnDetect ==
  /\ vpn.fn = "none"
  /\ vpn' = CallDetect(vpn.env)
  /\ UNCHANGED <<cfg, ca, conf, horizon, auth, pf, now, proc, mainVars, loopVars, sigVars, tickC,
                 nextTick, ticksFired>>

\* getVPNHostname is called on the configuration file of the state
VpnGetHostname ==
  /\ vpn.fn = "none"
  /\ vpn' = CallGetVPNHostname(vpn.env.config)
  /\ UNCHANGED <<cfg, ca, conf, horizon, auth, pf, now, proc, mainVars, loopVars, sigVars, tickC,
                 nextTick, ticksFired>>

\* the package by itself, in each of the environments
InitVpn ==
  /\ OrchestratorOff
  /\ conf = NoConfCall
  /\ auth = NewClient
  /\ pf = NoPfCall
  /\ vpn \in {VpnCall("none", env, NoConnectionInfo, <<>>, "") : env \in Envs}

NextVpn ==
  \/ VpnDetect
  \/ VpnGetHostname

SpecVpn == InitVpn /\ [][NextVpn]_vars

(* --------------------- package portforwarding, its calls --------------- *)
\* GetPortForwarding is called on the client of the state, with its exchange
PfGetPortForwarding ==
  /\ pf.fn = "none"
  /\ pf.exchange \in SignatureExchanges
  /\ pf' = CallGetPortForwarding(pf.client, pf.exchange)
  /\ UNCHANGED <<cfg, ca, conf, horizon, auth, vpn, now, proc, mainVars, loopVars, sigVars, tickC,
                 nextTick, ticksFired>>

\* BindPort is called on the client of the state with a payload and a
\* signature, with its exchange
PfBindPort ==
  /\ pf.fn = "none"
  /\ pf.exchange \in BindExchanges
  /\ \E p \in Payloads, sg \in {"sig1", "sig2"} :
       pf' = CallBindPort(pf.client, p, sg, pf.exchange)
  /\ UNCHANGED <<cfg, ca, conf, horizon, auth, vpn, now, proc, mainVars, loopVars, sigVars, tickC,
                 nextTick, ticksFired>>

\* the package by itself, for each client and each exchange
InitPf ==
  /\ OrchestratorOff
  /\ conf = NoConfCall
  /\ auth = NewClient
  /\ vpn = NoVpnCall
  /\ pf \in {[NoPfCall EXCEPT !.client = c, !.exchange = r] :
               c \in Clients, r \in SignatureExchanges \cup BindExchanges}

NextPf ==
  \/ PfGetPortForwarding
  \/ PfBindPort

SpecPf == InitPf /\ [][NextPf]_vars

(* ------------- main from the CA certificate to the first request ------- *)
\* The state of main at line 762, the tunnel detected and the handler
\* registered, for each configured path and each set of existing files, in an
\* environment that sends no termination signal.
InitStartup ==
  /\ cfg \in Configs
  /\ ca \in CAs
  /\ conf = NoConfCall
  /\ horizon = 0
  /\ now = 0
  /\ proc = "running"
  /\ mainPc = "cacert"
  /\ loopPc = "off"
  /\ sigPc = "recv"
  /\ sigChan = 0
  /\ sigNotify = TRUE
  /\ sigsSent = 0
  /\ ctxDone = FALSE
  /\ detects = 0
  /\ tickC = FALSE
  /\ nextTick = NoTime
  /\ ticksFired = 0
  /\ initDeadline = NoTime
  /\ pfInfo = NoLease
  /\ initialPort = NoPort
  /\ portChanged = FALSE
  /\ outFile = NoFile
  /\ tick = NoTick
  /\ seen = NoSeen
  /\ scriptLog = <<>>
  /\ initLogged = FALSE
  /\ auth = NewClient
  /\ vpn = NoVpnCall
  /\ pf = NoPfCall

NextStartup ==
  \/ MainResolveCACert
  \/ MainSpawnLoop
  \/ MainEnterSelect
  \/ LoopStart
  \/ LoopInitialSignature

SpecStartup == InitStartup /\ [][NextStartup]_vars

(* --------------------------- package config, its call ------------------ *)
\* DefaultConfig is called in the environment of the state
ConfDefaultConfig ==
  /\ conf.fn = "none"
  /\ conf' = ConfCall("DefaultConfig", conf.env, DefaultConfig(conf.env))
  /\ UNCHANGED <<cfg, ca, horizon, auth, vpn, pf, now, proc, mainVars, loopVars, sigVars,
                 tickC, nextTick, ticksFired>>

\* the package by itself, for each environment
InitConf ==
  /\ OrchestratorOff
  /\ auth = NewClient
  /\ vpn = NoVpnCall
  /\ pf = NoPfCall
  /\ conf \in {ConfCall("none", env, NoConfig) : env \in Environments}

NextConf == ConfDefaultConfig

SpecConf == InitConf /\ [][NextConf]_vars

(* ============================ properties =============================== *)
\* the running iteration has bound, written and finished handlePortOutput
TickEnded == loopPc = "notify"
TickWritten == TickEnded /\ tick.bind = "ok" /\ tick.write = "ok"

\* C1: the script is invoked at a tick only if the port bound at that tick
\* differs from the port of the last tick before it whose bind succeeded (so
\* ticks that bind the same port again never invoke it again).
ScriptOnlyOnPortChange == tick.invoked => tick.port # seen.observed

\* C2: a tick that binds and writes a port other than the port of the previous
\* successful write invokes the script, when one is configured.
ScriptOnEveryWrittenChange ==
  (TickWritten /\ cfg.script /\ seen.written # NoPort /\ tick.port # seen.written)
    => tick.invoked

\* the third iteration of the loop has ended, and the three iterations bound
\* and wrote 12345, 12345, 54321
ExampleDone ==
  /\ TickEnded
  /\ seen.example = Len(ExamplePorts) - 1
  /\ Seen(tick).example = Len(ExamplePorts)

\* C3, as stated: the example's three ticks invoke the script exactly once,
\* with ("54321", outputFilePath).
ExampleInvokesOnce ==
  (ExampleDone /\ cfg.script) => scriptLog = <<ScriptArgs(54321)>>

\* C3, amended: the example's three ticks invoke the script with
\* ("54321", outputFilePath) exactly once, at the third tick, and at most once
\* before that, with ("12345", outputFilePath); without a script, never.
ExampleInvokesForStartupAndChange ==
  ExampleDone =>
    IF cfg.script
      THEN /\ scriptLog \in {<<ScriptArgs(54321)>>, <<ScriptArgs(12345), ScriptArgs(54321)>>}
           /\ tick.invoked
      ELSE scriptLog = <<>>

\* C3, witness: the example has run with a script that was invoked twice
ExampleInvokedTwice == ExampleDone /\ cfg.script /\ Len(scriptLog) = 2

\* C4: with a script configured, the first tick that binds and writes
\* successfully invokes the script with the port it wrote.
FirstWriteReported ==
  (TickWritten /\ cfg.script /\ seen.written = NoPort)
    => tick.invoked /\ scriptLog = <<ScriptArgs(tick.port)>>

\* C5: after a bind failure the iteration writes nothing and invokes nothing,
\* the loop is in the wait for the next tick with the process running, and
\* until that tick the output file and the script invocations stay as they were.
BindFailureSkipsTick ==
  /\ [](tick.bind = "fail" =>
          /\ loopPc = "wait_fail"
          /\ Running
          /\ tick.write = "none"
          /\ ~tick.invoked)
  /\ [][tick'.bind = "fail" => outFile' = outFile /\ scriptLog' = scriptLog]_vars

\* C5, witness: a bind has failed with a port file on disk from an earlier tick
BindFailedAfterWrite ==
  loopPc = "wait_fail" /\ tick.bind = "fail" /\ seen.written # NoPort

\* the order of the steps of an iteration
StepOrder == <<"refresh", "bind", "write", "script">>

IsPrefix(s, t) == Len(s) <= Len(t) /\ SubSeq(t, 1, Len(s)) = s

\* C6: the steps of an iteration complete in the order refresh (if any), bind,
\* write, script, and each is begun only when the one before it has succeeded.
TickSequential ==
  /\ IsPrefix(tick.log, StepOrder) \/ IsPrefix(tick.log, Tail(StepOrder))
  /\ loopPc = "refresh" => tick.log = <<>>
  /\ loopPc = "bind" => tick.bind = "none" /\ tick.write = "none" /\ ~tick.invoked
  /\ loopPc \in {"write", "write_data"} =>
       tick.bind = "ok" /\ tick.write = "none" /\ ~tick.invoked
  /\ loopPc = "exec" => tick.bind = "ok" /\ tick.write = "ok" /\ ~tick.invoked
  /\ tick.invoked => tick.write = "ok"

\* C6, witness: an iteration has gone through all four steps
TickWithAllSteps == tick.log = StepOrder

\* a step of the running iteration has failed
TickFailed ==
  \/ tick.refresh = "fail"
  \/ tick.bind = "fail"
  \/ tick.write = "fail"
  \/ tick.script \in {"start_failed", "exited_fail", "killed"}

\* C7: once main has logged the initialization, and with no signal sent, the
\* process keeps running and the loop never returns, and every failure of a
\* refresh, a bind, a write or a script is followed by the wait for the next tick.
SteadyFailuresSurvive ==
  /\ [](initLogged => Running /\ loopPc \notin {"failed", "stopped", "dead"})
  /\ (initLogged /\ TickFailed) ~> (loopPc \in {"wait", "wait_fail"})

\* C7, witness: after the initialization a bind has failed and the loop waits
SteadyBindFailure == initLogged /\ loopPc = "wait_fail" /\ tick.bind = "fail"

\* C8: main logs the initialization only after an iteration of the loop has
\* bound the port, main does not stay in its select past the 30s deadline, and
\* the fatal timeout ends the process only when no iteration has bound the port
\* (once the first bind has succeeded, main logs the initialization).
StartupReadiness ==
  /\ initLogged => seen.observed # NoPort
  /\ mainPc = "select" => ~initLogged /\ now <= initDeadline
  /\ proc = "fatal: timeout" => ~initLogged /\ seen.observed = NoPort

\* C9, as stated: after a failed initial signature request or a failed first
\* bind the process is never initialized.
StartupFailuresAllFatal ==
  seen.start \in {"sig_failed", "bind_failed"} => ~initLogged

\* C9, amended: a failed token acquisition ends the process at once; after a
\* failed initial signature request the process is never initialized and ends
\* by the fatal timeout unless a signal ends it first; a failed first bind is
\* retried at the next tick, and the process is initialized after it only when
\* the refresh interval is within the 30s timeout.
StartupFailures ==
  /\ proc = "fatal: token" => seen.start = "none" /\ scriptLog = <<>> /\ outFile = NoFile
  /\ seen.start = "sig_failed" =>
       /\ ~initLogged
       /\ proc \in {"running", "fatal: timeout", "exited", "killed"}
  /\ (seen.start = "bind_failed" /\ initLogged) => cfg.interval <= InitTimeout
  /\ seen.start # "none" /\ proc \in FatalExits => proc = "fatal: timeout" /\ ~initLogged

\* C9, witness: the first bind failed and a later one initialized the process
FirstBindRetriedIntoInit == seen.start = "bind_failed" /\ initLogged /\ Running

\* C10: once initialized and with no signal sent, every tick of the ticker is
\* received by the loop, which then begins an iteration, and every iteration
\* begun attempts a bind.
TicksLeadToBind ==
  /\ (initLogged /\ tickC) ~> (~tickC /\ loopPc \in {"refresh", "bind"})
  /\ (initLogged /\ loopPc \in {"refresh", "bind"}) ~> (tick.bind # "none")

\* C10, witness: after the initialization a tick has started a new iteration
TickStartedIteration ==
  initLogged /\ ticksFired > 1 /\ loopPc = "bind" /\ tick.bind = "none"

\* C11: a script started asynchronously is never waited on by the loop and is
\* never killed by the orchestrator: it runs until it exits by itself.
AsyncScriptLeftAlone ==
  ~cfg.sync => loopPc # "script_wait" /\ tick.script # "killed"

\* C12: in asynchronous mode executePortChangeScript returns without waiting,
\* and whatever becomes of the script (exit, failure, no start, kill) the step
\* leaves the loop before the `refreshed` signal with its locals, the file, the
\* clock and main as they were.
AsyncScriptDoesNotBlock ==
  /\ [](~cfg.sync => loopPc # "script_wait")
  /\ [][(~cfg.sync /\ ~tick.invoked /\ tick'.invoked) =>
          /\ loopPc' = "notify"
          /\ UNCHANGED <<proc, mainVars, sigVars, timeVars, pfInfo, initialPort,
                         portChanged, outFile, seen>>]_vars

\* C12, witness: an asynchronous script has failed and the loop is about to
\* signal `refreshed`
AsyncScriptFailed == ~cfg.sync /\ loopPc = "notify" /\ tick.script = "exited_fail"

BlockingOperationsInterruptible ==
  /\ (mainPc = "detect_wait" /\ sigChan > 0) => ctxDone \/ ENABLED SigGoReceive
  /\ (loopPc \in {"wait", "wait_fail"} /\ sigChan > 0) => ENABLED LoopWaitSignal
  /\ (loopPc = "script_wait" /\ sigChan > 0) =>
       \/ ENABLED MainReceiveSignal
       \/ ENABLED SigGoReceive
       \/ mainPc = "enter_select"

\* C14, witness: a signal is waiting while the loop is inside a synchronous
\* script that has neither exited nor timed out
SignalDuringSyncScript ==
  loopPc = "script_wait" /\ sigChan > 0 /\ now < tick.deadline /\ sigPc = "done"

\* what a reader of the output file can find when every write replaces the
\* file atomically: no file yet, or the complete decimal port of some lease
CompleteContents == {NoFile} \cup {Itoa(p) : p \in Ports}

\* C15: at every moment the output file holds a complete content, the previous
\* one or the new one, never an empty or partial one.
FileAlwaysComplete == outFile \in CompleteContents

DigitChars == {Digit(d) : d \in 0..9}

WriteFailureSkipsScript ==
  /\ [](tick.write = "fail" => Running /\ loopPc = "notify" /\ ~tick.invoked)
  /\ [][(tick.write # "fail" /\ tick'.write = "fail") =>
          proc' = proc /\ scriptLog' = scriptLog]_vars
  /\ (initLogged /\ tick.write = "fail") ~> (loopPc = "wait")
  /\ (initLogged /\ loopPc = "wait" /\ tickC) ~> (tick.bind # "none")
  /\ (initLogged /\ tick.bind = "ok" /\ tick.write = "none") ~> (tick.write # "none")

\* C17, witness: after the initialization the write has failed at a tick whose
\* port had changed, with a script configured
WriteFailedOnChangedPort ==
  initLogged /\ tick.write = "fail" /\ cfg.script /\ portChanged /\ ticksFired > 0

\* C18: the loop that receives the signal in one of its tick waits returns and
\* leaves the output file as it is; from then on it begins no iteration (no
\* signature request, no bind, no script) and the file is never modified,
\* truncated or deleted again.
LoopExitKeepsFile ==
  /\ [][(loopPc \in {"wait", "wait_fail"} /\ loopPc' = "stopped") =>
          /\ sigChan' = sigChan - 1
          /\ outFile' = outFile
          /\ scriptLog' = scriptLog]_vars
  /\ [][loopPc = "stopped" =>
          /\ loopPc' \in {"stopped", "dead"}
          /\ tick' = NoTick
          /\ pfInfo' = NoLease
          /\ outFile' = outFile
          /\ scriptLog' = scriptLog]_vars

\* C18, witness: the loop has returned on the signal after a write of the port
LoopStoppedAfterWrite ==
  loopPc = "stopped" /\ seen.written # NoPort /\ outFile = Itoa(seen.written)

\* the step is a call of GetToken
IsGetToken == auth'.calls = auth.calls + 1
\* the cached token is valid before the step
CachedTokenValid == auth.token # "" /\ now < auth.expiresAt
\* the cached token has expired before the step
CachedTokenExpired == auth.token # "" /\ now >= auth.expiresAt

\* C19, as stated: a call made while the cached token is valid returns it, with
\* no exchange and the expiry unchanged; a call made after the expiry makes one
\* exchange and replaces the cached token and the expiry.
ExpiredTokenAlwaysReplaced ==
  [][IsGetToken =>
       /\ CachedTokenValid =>
            /\ auth'.ret = auth.token
            /\ auth'.token = auth.token
            /\ auth'.expiresAt = auth.expiresAt
            /\ auth'.exchanges = auth.exchanges
       /\ CachedTokenExpired =>
            /\ auth'.exchanges = auth.exchanges + 1
            /\ auth'.token = auth'.resp.token
            /\ auth'.expiresAt = now + TokenValidityDuration]_vars

\* C19, amended: a call made while the cached token is valid returns it without
\* error, with no exchange and the token and expiry unchanged, so that the call
\* after a successful call returns the identical token; a call made with no
\* valid token (none yet, or now >= expiresAt) makes exactly one exchange, and
\* replaces the cached token and the expiry (now + 24h) when the exchange
\* succeeds, and leaves both as they were when it fails.
TokenCachedWhileValid ==
  /\ [](auth.calls > 0 /\ auth.err = "" => auth.ret = auth.token /\ auth.token # "")
  /\ [][IsGetToken =>
          IF CachedTokenValid
            THEN /\ auth'.ret = auth.token
                 /\ auth'.err = ""
                 /\ auth'.token = auth.token
                 /\ auth'.expiresAt = auth.expiresAt
                 /\ auth'.exchanges = auth.exchanges
            ELSE /\ auth'.exchanges = auth.exchanges + 1
                 /\ auth'.err = "" =>
                      /\ auth'.token = auth'.resp.token
                      /\ auth'.ret = auth'.token
                      /\ auth'.expiresAt = now + TokenValidityDuration
                 /\ auth'.err # "" =>
                      /\ auth'.token = auth.token
                      /\ auth'.expiresAt = auth.expiresAt]_vars

\* C19, witness: three calls, the first exchanged, the second served from the
\* cache, the third after the expiry exchanged again and replaced the expiry
TokenReplacedAfterExpiry ==
  /\ auth.calls = 3
  /\ auth.exchanges = 2
  /\ auth.err = ""
  /\ now >= TokenValidityDuration
  /\ auth.expiresAt = now + TokenValidityDuration

\* C20: a call of GetToken with no valid cached token returns an error and the
\* empty token exactly when the request was not sent, the response could not be
\* read or parsed, its error field is not empty or its token field is empty; it
\* returns the token of the response otherwise.
ExchangeFailuresAreErrors ==
  [][(IsGetToken /\ ~CachedTokenValid) =>
       LET r == auth'.resp
           bad == r.kind # "json" \/ r.error # "" \/ r.token = ""
       IN /\ r.kind # "none"
          /\ bad => auth'.err # "" /\ auth'.ret = ""
          /\ ~bad => auth'.err = "" /\ auth'.ret = r.token]_vars

\* C20, witness: the response carried both a token and an error, and the call
\* failed
ErrorFieldWithToken ==
  auth.resp.kind = "json" /\ auth.resp.error # "" /\ auth.resp.token # "" /\ auth.err # ""

\* the step is a call of DetectOpenVPNConnection by detectVPNWithRetry
IsDetectCall == mainPc = "detect" /\ mainPc' \in {"detect_wait", "sigreset"}

CancelledDetectionMakesNoRequest ==
  /\ [][(mainPc = "detect_wait" /\ ctxDone) => mainPc' # "detect"]_vars
  /\ []((mainPc = "detect_wait" /\ ctxDone) => ENABLED detectVPNWithRetry_Wait)
  /\ [](ctxDone =>
          /\ pfInfo = NoLease
          /\ seen.start = "none"
          /\ seen.observed = NoPort
          /\ loopPc # "failed")

\* some enumerated interface has a name that begins with "tun"
SomeTunInterface(ifaces) ==
  /\ ~ifaces.err
  /\ \E i \in 1..Len(ifaces.names) :
       LET n == ifaces.names[i] IN Len(n) >= 3 /\ n[1] = "t" /\ n[2] = "u" /\ n[3] = "n"

\* C23, as stated: DetectOpenVPNConnection succeeds if and only if some
\* enumerated interface name begins with "tun".
DetectSucceedsIffTun ==
  vpn.fn = "DetectOpenVPNConnection" =>
    ((vpn.err = "") <=> SomeTunInterface(vpn.env.ifaces))

\* C23, amended: DetectOpenVPNConnection succeeds only if some enumerated
\* interface name begins with "tun"; with no such interface or a failed
\* enumeration it returns an error and no connection info; with such an
\* interface it succeeds exactly when the routing table gives a gateway, and it
\* returns a result in every environment.
DetectSucceedsOnlyWithTun ==
  vpn.fn = "DetectOpenVPNConnection" =>
    /\ vpn.err = "" => SomeTunInterface(vpn.env.ifaces) /\ vpn.conn # NoConnectionInfo
    /\ vpn.err # "" => vpn.conn = NoConnectionInfo
    /\ SomeTunInterface(vpn.env.ifaces) =>
         ((vpn.err = "") <=> (getVPNGatewayIP(vpn.env.routes).err = ""))

\* C23, witness: a detection that failed although an interface other than the
\* tunnel has "tun" inside its name
DetectFailedWithoutTunPrefix ==
  /\ vpn.fn = "DetectOpenVPNConnection"
  /\ vpn.err # ""
  /\ vpn.env.ifaces.names = <<Lo, Utun3>>
  /\ getVPNGatewayIP(vpn.env.routes).err = ""

\* the lines of a configuration that are `remote <address> ...` directives:
\* the word remote, a space, and at least an address
IsRemoteDirective(line) ==
  LET w == SplitOn(line, Space) IN Len(w) >= 2 /\ w[1] = Remote /\ w[2] # <<>>
\* the addresses of the inputs that are IP literals
IPLiterals == {IPAddr, GatewayAddr, LanAddr}

\* C24: for a configuration file with a remote directive, getVPNHostname
\* returns, without error, the host name of the first such directive: its
\* address followed by ".privacy.network" when the address is an IP literal,
\* the address itself otherwise; the later directives do not matter.
HostnameFromFirstRemote ==
  (vpn.fn = "getVPNHostname" /\ ~vpn.env.config.err) =>
    LET lines == vpn.env.config.lines
        I == {i \in 1..Len(lines) : IsRemoteDirective(lines[i])}
    IN I # {} =>
         LET address == SplitOn(lines[SetMin(I)], Space)[2] IN
           /\ vpn.err = ""
           /\ vpn.hostname = IF address \in IPLiterals THEN address \o PrivacyNetwork
                             ELSE address

\* C24, witness: the file has two remote directives, the first with an IP
\* literal and the second with a host name, and the host name returned is that
\* of the first
FirstOfTwoRemotes ==
  /\ vpn.fn = "getVPNHostname"
  /\ vpn.env.config.lines = <<Join(<<Remote, IPAddr, OpenVPNPort, Udp>>),
                              Join(<<Remote, HostAddr, OpenVPNPort, Udp>>)>>
  /\ vpn.hostname = IPAddr \o PrivacyNetwork

(* ---------------------- package portforwarding ------------------------ *)
IsPfCall(fn) == pf.fn = fn

\* C25: every signature and bind request is made over a connection to
\* gatewayIP:19999 on which the server's certificate is verified, against the
\* pinned CA certificate and for the identity of the host name; no request is
\* made by a client with verification disabled.
RequestsVerifyServer ==
  (IsPfCall("GetPortForwarding") \/ IsPfCall("BindPort")) =>
    /\ pf.req.dial = <<pf.client.gatewayIP, APIPort>>
    /\ pf.req.verified
    /\ pf.req.rootCAs = pf.client.caCertPath
    /\ pf.req.serverName = pf.client.hostname

\* the instants of the RFC 3339 strings of the inputs
InstantOf(str) ==
  IF str \in {"2030-01-01T00:00:00Z", "2030-01-01T01:00:00+01:00"} THEN 1893456000
  ELSE NoTime
\* the response is one with status "OK" and a payload that is the base64
\* encoding of a JSON object with a numeric port and an RFC 3339 expiry
GoodSignatureExchange(r) ==
  /\ r.kind = "json"
  /\ r.body.status = "OK"
  /\ r.body.payload.encoding = "base64"
  /\ r.body.payload.bytes.json
  /\ r.body.payload.bytes.members.port.type = "number"
  /\ InstantOf(r.body.payload.bytes.members.expires_at) # NoTime
\* the failures: transport, status, base64, JSON
BadSignatureExchange(r) ==
  \/ r.kind # "json"
  \/ r.body.status # "OK"
  \/ r.body.payload.encoding # "base64"
  \/ ~r.body.payload.bytes.json
  \/ r.body.payload.bytes.members.port.type = "string"
  \/ InstantOf(r.body.payload.bytes.members.expires_at) = NoTime

\* C26: GetPortForwarding returns, for a response with status "OK" whose
\* payload decodes, a lease with the port and the expiry of the decoded payload
\* and with the payload and signature strings of the response unchanged; on a
\* transport failure, a status other than "OK", a payload that is not base64
\* or a payload whose JSON cannot be parsed it returns an error and no lease.
LeaseFromDecodedPayload ==
  IsPfCall("GetPortForwarding") =>
    LET r == pf.exchange IN
      /\ GoodSignatureExchange(r) =>
           /\ pf.err = ""
           /\ pf.info.Port = r.body.payload.bytes.members.port.value
           /\ pf.info.ExpiresAt = InstantOf(r.body.payload.bytes.members.expires_at)
           /\ pf.info.Payload = r.body.payload
           /\ pf.info.Signature = r.body.signature
      /\ BadSignatureExchange(r) =>
           /\ pf.err # ""
           /\ pf.info = NoPortForwardingInfo

\* C26, witness: a lease was returned from a payload whose expiry is written
\* with a zone offset, with the instant of that expiry
LeaseFromOffsetExpiry ==
  /\ IsPfCall("GetPortForwarding")
  /\ pf.exchange.body.payload.bytes.members.expires_at = "2030-01-01T01:00:00+01:00"
  /\ pf.err = ""
  /\ pf.info.Port = 54321
  /\ pf.info.ExpiresAt = 1893456000
  /\ pf.info.Signature = "sig2"

\* C27: BindPort returns no error only for a response with status "OK"; for
\* a response with another status its error carries the message of the
\* response; a failure of the transport or of the parsing is an error.
BindSucceedsOnlyOnOK ==
  IsPfCall("BindPort") =>
    LET r == pf.exchange IN
      /\ pf.err = "" <=> (r.kind = "json" /\ r.body.status = "OK")
      /\ (r.kind = "json" /\ r.body.status # "OK") => pf.message = r.body.message
      /\ r.kind # "json" => pf.err # ""

\* C27, witness: the provider refused the binding with a message, and BindPort
\* returned an error with that message
BindRefusedWithMessage ==
  /\ IsPfCall("BindPort")
  /\ pf.exchange.kind = "json"
  /\ pf.exchange.body.status = "ERROR"
  /\ pf.exchange.body.message = "port already bound"
  /\ pf.err = "failed to bind port"
  /\ pf.message = "port already bound"

(* ------------------------ the CA certificate path ---------------------- *)
\* the configured path names a file that exists: the path itself when it is
\* absolute, the path under the working directory or under
\* /etc/openvpn/client when it is relative
CACertFileExists ==
  IF ca.CACertFile[1] = Root THEN ca.CACertFile \in ca.files
  ELSE \/ Cwd \o ca.CACertFile \in ca.files
       \/ ExamplesDir \o ca.CACertFile \in ca.files
\* the loop has made its signature request
SignatureRequested == loopPc \notin {"off", "start", "init_sig", "dead"}

\* C28: when the configured CA certificate path, absolute or relative, names
\* no existing file, main does not get past resolving it, the process ends
\* with the error of that step, and the loop is not started and makes no
\* request.
MissingCACertIsFatal ==
  ~CACertFileExists =>
    /\ mainPc \in {"cacert", "dead"}
    /\ mainPc = "dead" => proc = "fatal: ca cert"
    /\ loopPc \in {"off", "dead"}
    /\ ~SignatureRequested
    /\ pfInfo = NoLease

\* C28, for the relative paths alone
MissingRelativeCACertIsFatal ==
  ~IsAbs(ca.CACertFile) => MissingCACertIsFatal

(* ----------------------------- package config ------------------------- *)
IsDefaultConfig == conf.fn = "DefaultConfig"

\* C29: PIA_SCRIPT_TIMEOUT is a number of seconds: set to a decimal number n
\* (60, say) it makes the script timeout n seconds, and set to a value that is
\* neither a number nor a duration it leaves the default of 30 seconds.
ScriptTimeoutInSeconds ==
  IsDefaultConfig =>
    LET str == conf.env.PIA_SCRIPT_TIMEOUT IN
      /\ (str # <<>> /\ IsDigits(str)) => conf.cfg.ScriptTimeout = Atoi(str) * Second
      /\ str \in {<<"i", "n", "v", "a", "l", "i", "d">>, <<"6", "0", "x">>, <<"s">>}
           => conf.cfg.ScriptTimeout = 30 * Second

\* C29, as the code has it: a number followed by the unit s gives that many
\* seconds, and a number without unit, other than 0, leaves the default
ScriptTimeoutNeedsUnit ==
  IsDefaultConfig =>
    LET str == conf.env.PIA_SCRIPT_TIMEOUT IN
      /\ (Len(str) >= 2 /\ str[Len(str)] = "s" /\ IsDigits(SubSeq(str, 1, Len(str) - 1)))
           => conf.cfg.ScriptTimeout = Atoi(SubSeq(str, 1, Len(str) - 1)) * Second
      /\ (str # <<>> /\ IsDigits(str) /\ str # <<"0">>)
           => conf.cfg.ScriptTimeout = 30 * Second

(* ------------------------- the refresh of the lease -------------------- *)
\* an iteration of the loop begins: after the initial signature or at a tick
IterationBegins == loopPc \in {"init_sig", "wait", "wait_fail"} /\ loopPc' \in {"refresh", "bind"}
\* a signature request is made in the iteration
SignatureRequestMade == tick.refresh = "none" /\ tick'.refresh # "none"
\* a bind request is made in the iteration
BindRequestMade == tick.bind = "none" /\ tick'.bind # "none"

\* C30: an iteration of the loop begins with a signature request if and only
\* if, at that moment, the lease expires in less than 24 hours; the signature
\* requests of the loop are those and no others; and every iteration goes on
\* to bind with the payload and the signature of the lease it then holds, so
\* that a tick with 24 hours or more left binds with the stored ones.
SignatureRequestedIffNearExpiry ==
  /\ [][IterationBegins =>
          (loopPc' = "refresh" <=> pfInfo'.expiresAt - now' < 24 * 3600)]_vars
  /\ [][(loopPc = "refresh" /\ loopPc' # "refresh" /\ Running') =>
          (SignatureRequestMade /\ loopPc' = "bind")]_vars
  /\ [][SignatureRequestMade => loopPc = "refresh"]_vars
  /\ [][(pfInfo' # pfInfo /\ Running') => loopPc \in {"init_sig", "refresh"}]_vars
  /\ [][(loopPc = "bind" /\ loopPc' # "bind" /\ Running') =>
          /\ BindRequestMade
          /\ tick'.sent = <<pfInfo.payload, pfInfo.signature>>
          /\ pfInfo' = pfInfo]_vars
  /\ [](tick.bind # "none" =>
          /\ tick.sent = <<pfInfo.payload, pfInfo.signature>>
          /\ tick.sent[2] = Signature(tick.sent[1]))

\* C30, witness: a tick began an iteration with exactly 24 hours left on the
\* lease, and the iteration has bound with the stored payload and signature
\* without a signature request
BoundAtTwentyFourHours ==
  /\ ticksFired > 0
  /\ pfInfo.expiresAt - now = 24 * 3600
  /\ tick.refresh = "none"
  /\ tick.bind = "ok"
  /\ tick.sent = <<pfInfo.payload, pfInfo.signature>>

\* the signature request of the running iteration has failed in this step
RefreshFails == loopPc = "refresh" /\ tick.refresh = "none" /\ tick'.refresh = "fail"

\* the stored lease expires in less than 24 hours
LeaseExpiresWithinADay == pfInfo.expiresAt - now < 24 * 3600

\* C31: a signature request that fails in the loop ends nothing and changes
\* nothing: the lease, the port kept for comparison and the pending
\* port-changed flag are as before, the iteration goes on to bind, and it
\* binds with the payload and the signature of that same lease.  The lease it
\* leaves expires within 24 hours and goes on doing so for as long as it is
\* stored, and an iteration that a tick begins with such a lease starts with a
\* signature request: the request is made again at the next tick.
FailedRefreshChangesNothing ==
  /\ [][RefreshFails =>
          /\ Running'
          /\ loopPc' = "bind"
          /\ pfInfo' = pfInfo
          /\ initialPort' = initialPort
          /\ portChanged' = portChanged]_vars
  /\ [][(tick.refresh = "fail" /\ tick'.refresh = "fail") => pfInfo' = pfInfo]_vars
  /\ [](tick.refresh = "fail" /\ tick.bind # "none" =>
          tick.sent = <<pfInfo.payload, pfInfo.signature>>)
  /\ [][RefreshFails => LeaseExpiresWithinADay']_vars
  /\ [][(LeaseExpiresWithinADay /\ pfInfo' = pfInfo /\ Running') =>
          LeaseExpiresWithinADay']_vars
  /\ [][(LeaseExpiresWithinADay /\ IterationBegins /\ loopPc # "init_sig") =>
          loopPc' = "refresh"]_vars
  /\ [][(tick.refresh = "fail" /\ loopPc = "wait_fail" /\ IterationBegins) =>
          loopPc' = "refresh"]_vars

\* C31, witness: after a tick, with a port change still to be reported, the
\* signature request failed and the iteration has bound with the lease it had
BoundAfterFailedRefresh ==
  /\ ticksFired > 0
  /\ tick.refresh = "fail"
  /\ tick.bind = "ok"
  /\ portChanged
  /\ pfInfo # NoLease
  /\ tick.sent = <<pfInfo.payload, pfInfo.signature>>

\* the port that the provider encoded in a payload
PayloadPort(payload) == payload[2]
\* a signature request of the loop succeeds in this step
SignatureObtained ==
  \/ loopPc = "init_sig" /\ loopPc' \in {"refresh", "bind"}
  \/ loopPc = "refresh" /\ tick.refresh = "none" /\ tick'.refresh = "ok"

\* C32: the stored lease is replaced only by a signature request that
\* succeeds, and then by the lease that request returned; every bind request
\* carries the payload and the signature of the stored lease, the provider's
\* signature of that very payload; and the port written to the output file
\* after the bind is the port encoded in the payload that was sent.
BindCarriesLatestSignature ==
  /\ [][(pfInfo' # pfInfo /\ Running') =>
          (SignatureObtained /\ pfInfo' \in NewLeases)]_vars
  /\ [][(tick.bind = "none" /\ tick'.bind # "none") =>
          tick'.sent = <<pfInfo.payload, pfInfo.signature>>]_vars
  /\ [](tick.bind # "none" =>
          /\ tick.sent[2] = Signature(tick.sent[1])
          /\ tick.sent[1] = Payload(pfInfo.port, pfInfo.expiresAt))
  /\ [](tick.write = "ok" => outFile = Itoa(PayloadPort(tick.sent[1])))

\* C32, witness: a refresh returned a lease with another port, the iteration
\* bound with the payload of that lease and wrote its port over the old one
NewPayloadBoundAndWritten ==
  /\ tick.refresh = "ok"
  /\ tick.bind = "ok"
  /\ tick.write = "ok"
  /\ seen.written = 12345
  /\ tick.sent[1] = Payload(54321, pfInfo.expiresAt)
  /\ outFile = Itoa(54321)

(* ------------------------------ the gateway ---------------------------- *)
\* a routing-table entry `<dest> via <addr> dev tunN`
IsViaTunEntry(line) ==
  LET w == Fields(line) IN
    Len(w) >= 5 /\ w[2] = Via /\ w[4] = Dev /\ HasPrefix(w[5], TunPrefix)
\* a routing-table entry `<dest> dev tunN ...`
IsDevTunEntry(line) ==
  LET w == Fields(line) IN
    Len(w) >= 3 /\ w[2] = Dev /\ HasPrefix(w[3], TunPrefix)
\* the fields of an entry that are addresses
AddressFields(line) ==
  LET w == Fields(line) IN {w[i] : i \in {j \in 1..Len(w) : ParseIP(w[j])}}
\* the detection got as far as the routing table, and the table was read
RoutesRead ==
  /\ vpn.fn = "DetectOpenVPNConnection"
  /\ SomeTunInterface(vpn.env.ifaces)
  /\ ~vpn.env.routes.err

\* C33: the gateway address that detection returns is an address field of the
\* first routing-table entry that references the tunnel interface, whether
\* that entry is of the form `<dest> via <addr> dev tunN` or of the form
\* `<dest> dev tunN ...`; with no entry that references the tunnel interface
\* detection fails.
GatewayFromFirstTunEntry ==
  RoutesRead =>
    LET lines == vpn.env.routes.lines
        I == {i \in 1..Len(lines) : IsViaTunEntry(lines[i]) \/ IsDevTunEntry(lines[i])}
    IN /\ I # {} =>
            /\ vpn.err = ""
            /\ vpn.conn.GatewayIP \in AddressFields(lines[SetMin(I)])
       /\ (\A i \in 1..Len(lines) : ~Contains(lines[i], TunPrefix)) => vpn.err # ""

\* C33, for the tables whose first entry that references the tunnel interface
\* is of the form `<dest> via <addr> dev tunN`: the gateway is <addr>
GatewayFromFirstViaTunEntry ==
  RoutesRead =>
    LET lines == vpn.env.routes.lines
        I == {i \in 1..Len(lines) : IsViaTunEntry(lines[i]) \/ IsDevTunEntry(lines[i])}
    IN /\ (I # {} /\ IsViaTunEntry(lines[SetMin(I)])) =>
            /\ vpn.err = ""
            /\ vpn.conn.GatewayIP = Fields(lines[SetMin(I)])[3]
       /\ (\A i \in 1..Len(lines) : ~Contains(lines[i], TunPrefix)) => vpn.err # ""

\* the routing table was read and has a line from which a gateway is taken
GatewayFound ==
  /\ RoutesRead
  /\ \E i \in 1..Len(vpn.env.routes.lines) :
       /\ Contains(vpn.env.routes.lines[i], TunPrefix)
       /\ Len(Fields(vpn.env.routes.lines[i])) >= 3
\* the configuration file cannot be read, or none of its lines is a remote
\* directive with an address
NoHostnameInConfig ==
  \/ vpn.env.config.err
  \/ \A i \in 1..Len(vpn.env.config.lines) : ~IsRemoteDirective(vpn.env.config.lines[i])

\* C34: when the gateway has been found and the configuration file cannot be
\* read or has no remote directive with an address, DetectOpenVPNConnection
\* returns no error, and the host name it returns is the gateway address it
\* returns followed by ".privacy.network".
HostnameFallsBackToGateway ==
  (GatewayFound /\ NoHostnameInConfig) =>
    /\ vpn.err = ""
    /\ vpn.conn.GatewayIP # <<>>
    /\ vpn.conn.Hostname =
         vpn.conn.GatewayIP \o <<".", "p", "r", "i", "v", "a", "c", "y", ".",
                                 "n", "e", "t", "w", "o", "r", "k">>

\* C34, witness: the configuration file has only a `remote ` line without an
\* address, and the host name returned is built from the gateway 10.8.0.1
HostnameBuiltFromGateway ==
  /\ vpn.fn = "DetectOpenVPNConnection"
  /\ ~vpn.env.config.err
  /\ vpn.env.config.lines = <<Client, RemotePrefix>>
  /\ vpn.err = ""
  /\ vpn.conn.GatewayIP = GatewayAddr
  /\ vpn.conn.Hostname = GatewayAddr \o PrivacyNetwork

(* ------------------------- the token of the loop ----------------------- *)
\* the loop makes a signature request in this step: the initial one, or the
\* one of refreshPortForwarding
SignatureRequestStep ==
  \/ loopPc = "init_sig" /\ loopPc' # "init_sig" /\ Running'
  \/ loopPc = "refresh" /\ tick.refresh = "none" /\ tick'.refresh # "none"

\* C35: every signature request of the loop, the initial one and every
\* refresh, is made while the token it carries is valid: now < expiresAt of
\* the token that main obtained.
SignatureRequestsCarryValidToken ==
  [][SignatureRequestStep => (auth.token # "" /\ now < auth.expiresAt)]_vars

\* C35, for the requests made within the validity of the token obtained at
\* startup
EarlySignatureRequestsCarryValidToken ==
  [][(SignatureRequestStep /\ now < 24 * 3600) =>
       (auth.token # "" /\ now < auth.expiresAt)]_vars

(* ------------------- who receives the termination signal --------------- *)
\* the loop has returned on the signal while main still waits at line 789,
\* with nothing left in the channel
LoopExitedMainWaits ==
  /\ Running
  /\ initLogged
  /\ loopPc = "stopped"
  /\ mainPc = "wait_sig"
  /\ sigChan = 0

\* C36: a termination signal after the initialization ends the process
\* whichever goroutine receives it from sigChan: there is no state in which
\* the loop has exited on the signal and the process keeps running, main
\* waiting for a second signal.
SignalEndsProcessWhoeverReceives == ~LoopExitedMainWaits

\* C36, for the receivers other than the loop: when main or the signal
\* goroutine takes the signal after the initialization, the process ends in
\* that step
OtherReceiversEndProcess ==
  [][(Running /\ initLogged /\ sigChan > 0 /\ sigChan' < sigChan /\ loopPc' = loopPc)
       => ~Running']_vars

(* -------------------- the notification on `refreshed` ------------------ *)
\* C37: the notification of the first successful bind is never lost: when an
\* iteration of the loop has bound the port and made its send on `refreshed`
\* before the 30s deadline and before any signal, main does not take the
\* time.After case of its select (it logs the initialization instead).
NotificationNeverLost ==
  [][(Running /\ mainPc = "select" /\ sigsSent = 0 /\ seen.observed # NoPort)
       => proc' # "fatal: timeout"]_vars

\* C37, for the interleavings in which main is already blocked in its select
\* when the loop makes the send: main receives and logs the initialization
NotificationReceivedInSelect ==
  [][(Running /\ loopPc = "notify" /\ loopPc' = "wait" /\ mainPc = "select")
       => (initLogged' /\ mainPc' = "wait_sig")]_vars

(* --------------------- what the output file can hold ------------------- *)
\* the file holds the port of a lease whose bind returned OK: the port of the
\* last completed write, or the one the running iteration bound and wrote
HoldsBoundPort ==
  \/ seen.written # NoPort /\ outFile = Itoa(seen.written)
  \/ tick.bind = "ok" /\ tick.write = "ok" /\ outFile = Itoa(tick.port)

\* the file is changed only by WritePortToFile in an iteration of the loop
\* whose bind succeeded, and a port is recorded as written only then
WrittenOnlyAfterBind ==
  /\ [][outFile' # outFile =>
          /\ loopPc \in {"write", "write_data"}
          /\ tick.bind = "ok"
          /\ tick.port = pfInfo.port
          /\ outFile' \in {<<>>, Itoa(tick.port)}]_vars
  /\ [][(seen'.written # seen.written) =>
          (tick.bind = "ok" /\ tick.write = "ok" /\ seen'.written = tick.port)]_vars

\* C38: in every state the output file is absent (or untouched) or holds the
\* port of a lease for which a bind returned OK, and it is written only by
\* the loop after such a bind.
FileAbsentOrHoldsBoundPort ==
  /\ [](outFile = NoFile \/ HoldsBoundPort)
  /\ WrittenOnlyAfterBind

\* C38, with the file that os.WriteFile has truncated and not (yet) written
\* counted as holding no port: the file never holds a port that was not bound
FileNeverHoldsUnboundPort ==
  /\ [](outFile \in {NoFile, <<>>} \/ HoldsBoundPort)
  /\ WrittenOnlyAfterBind

(* ---------------------- a failed credential exchange ------------------ *)
\* a call of GetToken is made in this step
GetTokenCalled == auth'.calls = auth.calls + 1

\* what the exchange gave is no token: the request was not sent, the body was
\* not read or not parsed, the response names an error or has an empty token
ExchangeFailed(r) == r.kind # "json" \/ r.error # "" \/ r.token = ""

\* C39: a failed credential exchange leaves the token cache unchanged: token
\* and expiresAt keep their values, the call returns the error and no token
\* (never the expired one), and the next call of GetToken makes a new exchange.
FailedExchangeKeepsCache ==
  /\ [][(GetTokenCalled /\ auth'.exchanges = auth.exchanges + 1 /\ ExchangeFailed(auth'.resp))
          => /\ auth'.token = auth.token
             /\ auth'.expiresAt = auth.expiresAt
             /\ auth'.err # ""
             /\ auth'.ret = ""]_vars
  /\ [][(GetTokenCalled /\ auth'.err # "") =>
          (auth'.token = auth.token /\ auth'.expiresAt = auth.expiresAt)]_vars
  /\ [][(GetTokenCalled /\ auth.err # "") => auth'.exchanges = auth.exchanges + 1]_vars

\* C39, witness: the client holds an expired token and its last call, a failed
\* exchange made after an earlier failed one, returned the error
FailedExchangeWithExpiredToken ==
  /\ auth.token # ""
  /\ now >= auth.expiresAt
  /\ auth.err # ""
  /\ auth.ret = ""
  /\ auth.exchanges >= 2
  /\ ExchangeFailed(auth.resp)

====
